---------------------------- MODULE Spec2Model ----------------------------
(***************************************************************************)
(* Model of the proposal-maker web application: the prompt-templating /    *)
(* model-response normalisation pipeline (text-to-json, design-library,    *)
(* generate-html-presentation, improve-html), the credential settings and  *)
(* the view tracking of shared proposals.                                  *)
(*                                                                         *)
(* JavaScript values are tagged records: [t |-> "undefined"],              *)
(* [t |-> "null"], [t |-> "string", s |-> ..], [t |-> "number", n |-> ..], *)
(* [t |-> "array", e |-> <<..>>] and [t |-> "object", k |-> <<keys in      *)
(* insertion order>>, f |-> [key |-> value]].                              *)
(* Strings that the code scans (prompts, credentials, error messages) are  *)
(* sequences: of characters for prompts and credentials, of words for      *)
(* error messages.                                                         *)
(***************************************************************************)
EXTENDS Integers, Sequences, FiniteSets, TLC

VARIABLES
  users,            \* Account id -> stored groqApiKey field
  systemPrompts,    \* sequence of PromptTemplate documents (index = _id)
  designLibraries,  \* sequence of DesignLibrary documents
  proposals,        \* the Proposal documents, in order of creation
  inflight,         \* getServerSideProps runs between findOne and save
  done,             \* number of completed getServerSideProps runs per token
  overlapped,       \* per token: two runs for it were in flight together
  req,              \* the last HTTP request and what the remote service answered
  resp,             \* the HTTP response to it
  net,              \* the outbound calls made while handling it
  fn,               \* a pure function under study: its input and its output
  pending,          \* requests between their findOne and their create
  accounts          \* the User documents created by signup

vars == <<users, systemPrompts, designLibraries, proposals, inflight, done,
          overlapped, req, resp, net, fn, pending, accounts>>

(***************************************************************************)
(* Bounds of the model.                                                    *)
(***************************************************************************)
MaxSlides == 2
MaxInputLen == 2
MaxLibs == 1
MaxPrompts == 1
MaxViews == 2
MaxInflight == 2
MaxProposals == 2
MaxTemplates == 2
MaxAccounts == 2

(***************************************************************************)
(* JavaScript values and the operators of the language the code uses.      *)
(***************************************************************************)
Undefined == [t |-> "undefined"]

Null == [t |-> "null"]

Str(s) == [t |-> "string", s |-> s]

Num(n) == [t |-> "number", n |-> n]

Arr(e) == [t |-> "array", e |-> e]

Obj(k, f) == [t |-> "object", k |-> k, f |-> f]

EmptyObj == Obj(<<>>, <<>>)

\* ToBoolean: undefined, null, "" and 0 are falsy; objects and arrays are truthy.
Truthy(v) ==
  CASE v.t = "undefined" -> FALSE
    [] v.t = "null" -> FALSE
    [] v.t = "string" -> v.s # ""
    [] v.t = "number" -> v.n # 0
    [] OTHER -> TRUE

\* a || b
Or(a, b) == IF Truthy(a) THEN a ELSE b

\* Reading a property of undefined or null throws a TypeError.
CanRead(v) == v.t \notin {"undefined", "null"}

\* o.key for a value whose properties can be read.
Get(o, key) ==
  IF o.t = "object" /\ key \in DOMAIN o.f THEN o.f[key] ELSE Undefined

\* typeof v === 'object'
TypeofObject(v) == v.t \in {"object", "array", "null"}

\* { ...o, key: v }: an existing key keeps its place, a new one is appended.
Put(o, key, v) ==
  IF key \in DOMAIN o.f
  THEN Obj(o.k, [x \in DOMAIN o.f |-> IF x = key THEN v ELSE o.f[x]])
  ELSE Obj(Append(o.k, key),
           [x \in DOMAIN o.f \cup {key} |-> IF x = key THEN v ELSE o.f[x]])

\* { ...v }: the own enumerable properties; a number or null spreads to {}.
Spread(v) == IF v.t = "object" THEN v ELSE EmptyObj

RECURSIVE JoinLines(_)
JoinLines(lines) ==
  IF lines = <<>> THEN ""
  ELSE IF Len(lines) = 1 THEN lines[1]
  ELSE lines[1] \o ",\n" \o JoinLines(Tail(lines))

\* JSON.stringify(v, null, 2), at the nesting given by indent.
RECURSIVE Stringify2(_, _)
Stringify2(v, indent) ==
  LET inner == indent \o "  " IN
  CASE v.t = "string" -> "\"" \o v.s \o "\""
    [] v.t = "number" -> ToString(v.n)
    [] v.t = "null" -> "null"
    [] v.t = "array" ->
         IF v.e = <<>> THEN "[]"
         ELSE "[\n"
              \o JoinLines([i \in 1..Len(v.e) |->
                              inner \o Stringify2(v.e[i], inner)])
              \o "\n" \o indent \o "]"
    [] v.t = "object" ->
         IF v.k = <<>> THEN "{}"
         ELSE "{\n"
              \o JoinLines([i \in 1..Len(v.k) |->
                              inner \o "\"" \o v.k[i] \o "\": "
                              \o Stringify2(v.f[v.k[i]], inner)])
              \o "\n" \o indent \o "}"

JSONstringify(v) == Stringify2(v, "")

(***************************************************************************)
(* A completion of the remote model: absent/empty, a text that is not      *)
(* JSON, or the text of a JSON value.  JSON.parse throws a SyntaxError on  *)
(* the second and returns the value of the third.                          *)
(***************************************************************************)
NoContent == [kind |-> "empty"]

NotJson == [kind |-> "text"]

Json(v) == [kind |-> "json", v |-> v]

Return(v) == [ok |-> TRUE, value |-> v]

Throw(msg) == [ok |-> FALSE, error |-> msg]

JSONparse(content) ==
  IF content.kind = "json" THEN Return(content.v)
  ELSE Throw(<<"SyntaxError">>)


(***************************************************************************)
(* Error messages are sequences of words; String.prototype.includes is a   *)
(* search for a contiguous run of words.                                   *)
(***************************************************************************)
Includes(msg, part) ==
  \E i \in 0..(Len(msg) - Len(part)) : SubSeq(msg, i + 1, i + Len(part)) = part

StartsWith(s, prefix) ==
  Len(s) >= Len(prefix) /\ SubSeq(s, 1, Len(prefix)) = prefix

(***************************************************************************)
(* String.prototype.replace(searchString, replaceString) on sequences of   *)
(* characters: the first occurrence of the search string is replaced by    *)
(* the expansion of the replacement, in which $$ stands for $, $& for the  *)
(* match, $ followed by a backquote for what precedes the match and $'     *)
(* for what follows it; with a string pattern there are no captures, so $1 *)
(* and the like stay as written.                                           *)
(***************************************************************************)
\* The backquote character.
Backquote == "BACKQUOTE"

IndexOf(s, pat) ==
  IF \E i \in 1..(Len(s) - Len(pat) + 1) : SubSeq(s, i, i + Len(pat) - 1) = pat
  THEN CHOOSE i \in 1..(Len(s) - Len(pat) + 1) :
         /\ SubSeq(s, i, i + Len(pat) - 1) = pat
         /\ \A j \in 1..(i - 1) : SubSeq(s, j, j + Len(pat) - 1) # pat
  ELSE 0

RECURSIVE GetSubstitution(_, _, _, _)
GetSubstitution(matched, before, after, repl) ==
  IF repl = <<>> THEN <<>>
  ELSE IF repl[1] = "$" /\ Len(repl) >= 2
  THEN LET rest == SubSeq(repl, 3, Len(repl)) IN
       CASE repl[2] = "$" -> <<"$">> \o GetSubstitution(matched, before, after, rest)
         [] repl[2] = "&" -> matched \o GetSubstitution(matched, before, after, rest)
         [] repl[2] = Backquote -> before \o GetSubstitution(matched, before, after, rest)
         [] repl[2] = "'" -> after \o GetSubstitution(matched, before, after, rest)
         [] OTHER -> <<"$">> \o GetSubstitution(matched, before, after, Tail(repl))
  ELSE <<repl[1]>> \o GetSubstitution(matched, before, after, Tail(repl))

StringReplace(s, pat, repl) ==
  LET pos == IndexOf(s, pat) IN
  IF pos = 0 THEN s
  ELSE LET before == SubSeq(s, 1, pos - 1)
           after == SubSeq(s, pos + Len(pat), Len(s))
       IN before \o GetSubstitution(pat, before, after, repl) \o after

\* '{text}'
Placeholder == <<"{", "t", "e", "x", "t", "}">>

\* The built-in prompt: "D" stands for its text before the placeholder and
\* "R" for its text after it; neither contains a placeholder or a $.
DefaultPrompt == <<"D">> \o Placeholder \o <<"R">>

\* Mutant of ResolvePrompt: every occurrence of the placeholder is replaced.
ResolvePrompt_AllOccurrences(template, text) ==
  LET RECURSIVE All(_)
      All(s) ==
        LET pos == IndexOf(s, Placeholder) IN
        IF pos = 0 THEN s
        ELSE SubSeq(s, 1, pos - 1) \o text
               \o All(SubSeq(s, pos + Len(Placeholder), Len(s)))
  IN All(template)

\* prompt = systemPrompt.prompt.replace('{text}', text)
ResolvePrompt(template, text) == StringReplace(template, Placeholder, text)

(***************************************************************************)
(* text-to-json: the validation and normalisation of a non-empty           *)
(* completion.  Anything thrown inside the try block, a SyntaxError, the   *)
(* missing-slides error or a TypeError alike, is rethrown as               *)
(* 'Invalid JSON response from AI model'.                                  *)
(***************************************************************************)
InvalidJsonFromModel == <<"Invalid", "JSON", "response", "from", "AI", "model">>

\* randomUUID(): the i-th token generated while handling one completion.
randomUUID(i) == Str("uuid-" \o ToString(i))

\* Mutant of enhanceSlide: the entry's own id is kept even when it is missing
\* or empty.
enhanceSlide_NoFallbackId(slide, i) ==
  Put(Put(Spread(slide), "id", Get(slide, "id")),
      "type", Or(Get(slide, "type"), Str("content")))

\* Mutant of enhanceSlide: every generated token of a deck is the same.
enhanceSlide_SameToken(slide, i) ==
  Put(Put(Spread(slide), "id", Or(Get(slide, "id"), randomUUID(1))),
      "type", Or(Get(slide, "type"), Str("content")))

enhanceSlide(slide, i) ==
  Put(Put(Spread(slide), "id", Or(Get(slide, "id"), randomUUID(i))),
      "type", Or(Get(slide, "type"), Str("content")))

enhancedSlides(slides) ==
  [i \in 1..Len(slides) |-> enhanceSlide(slides[i], i)]

\* Mutant of parseDeck: a completion that does not parse yields an empty deck.
parseDeck_EmptyDeckOnSyntaxError(content) ==
  IF content.kind # "json"
  THEN Return([presentationTitle |-> Str("Generated Presentation"),
               totalSlides |-> 0, slides |-> <<>>])
  ELSE LET slides == Get(content.v, "slides") IN
    IF ~CanRead(content.v) \/ ~Truthy(slides) \/ slides.t # "array"
    THEN Throw(InvalidJsonFromModel)
    ELSE IF \E i \in 1..Len(slides.e) : ~CanRead(slides.e[i])
    THEN Throw(InvalidJsonFromModel)
    ELSE Return([presentationTitle |->
                   Or(Get(content.v, "presentationTitle"),
                      Str("Generated Presentation")),
                 totalSlides |-> Len(enhancedSlides(slides.e)),
                 slides |-> enhancedSlides(slides.e)])

parseDeck(content) ==
  LET parsed == JSONparse(content) IN
  IF ~parsed.ok THEN Throw(InvalidJsonFromModel)
  ELSE LET jsonResponse == parsed.value IN
    IF ~CanRead(jsonResponse) THEN Throw(InvalidJsonFromModel)
    ELSE LET slides == Get(jsonResponse, "slides") IN
      IF ~Truthy(slides) \/ slides.t # "array" THEN Throw(InvalidJsonFromModel)
      ELSE IF \E i \in 1..Len(slides.e) : ~CanRead(slides.e[i])
      THEN Throw(InvalidJsonFromModel)
      ELSE Return([presentationTitle |->
                     Or(Get(jsonResponse, "presentationTitle"),
                        Str("Generated Presentation")),
                   totalSlides |-> Len(enhancedSlides(slides.e)),
                   slides |-> enhancedSlides(slides.e)])

(***************************************************************************)
(* design-library: the normalisation of a non-empty completion into        *)
(* {cssVariables, analysisResult}.                                         *)
(***************************************************************************)
InvalidJsonFromGroq == <<"Invalid", "JSON", "response", "from", "Groq", "API">>

\* typeof x === 'object' ? JSON.stringify(x, null, 2) : x
stringifyIfObject(x) == IF TypeofObject(x) THEN Str(JSONstringify(x)) ELSE x

\* The branch for { cssVariables, analysisResult }.
originalFormat(parsedContent) ==
  [cssVariables |-> Get(parsedContent, "cssVariables"),
   analysisResult |-> Get(parsedContent, "analysisResult")]

parseDesignTokens(content) ==
  LET parsed == JSONparse(content) IN
  IF ~parsed.ok THEN Throw(InvalidJsonFromGroq)
  ELSE LET parsedContent == parsed.value IN
    IF ~CanRead(parsedContent) THEN Throw(InvalidJsonFromGroq)
    ELSE IF Truthy(Get(parsedContent, "css"))
            /\ Truthy(Get(parsedContent, "implementationNote"))
    THEN Return([cssVariables |-> Get(parsedContent, "css"),
                 analysisResult |->
                   stringifyIfObject(Get(parsedContent, "implementationNote"))])
    ELSE IF Truthy(Get(parsedContent, "cssVariables"))
            /\ Truthy(Get(parsedContent, "analysisResult"))
    THEN Return(originalFormat(parsedContent))
    ELSE LET cssContent ==
               Or(Or(Or(Get(parsedContent, "css"),
                        Get(parsedContent, "cssVariables")),
                     Get(parsedContent, "styles")), Str(""))
             analysisContent ==
               Or(Or(Or(Get(parsedContent, "implementationNote"),
                        Get(parsedContent, "analysisResult")),
                     Get(parsedContent, "analysis")), Str(""))
         IN Return([cssVariables |-> cssContent,
                    analysisResult |-> stringifyIfObject(analysisContent)])

(***************************************************************************)
(* The inputs the pure functions are studied on.                           *)
(***************************************************************************)
BoundedSeq(S, n) == UNION {[1..m -> S] : m \in 0..n}

\* The object literal with the given <<key, value>> pairs, in order; a pair
\* whose value is undefined stands for an absent key.
RECURSIVE FromPairs(_)
FromPairs(pairs) ==
  IF pairs = <<>> THEN EmptyObj
  ELSE LET front == FromPairs(SubSeq(pairs, 1, Len(pairs) - 1))
           last == pairs[Len(pairs)]
       IN IF last[2] = Undefined THEN front ELSE Put(front, last[1], last[2])

SlideObjects ==
  {FromPairs(<< <<"id", id>>, <<"title", Str("T")>>, <<"type", type>>,
               <<"bullets", bullets>> >>) :
     id \in {Undefined, Str(""), Str("s1")},
     type \in {Undefined, Str(""), Str("bullet")},
     bullets \in {Undefined, Arr(<<Str("b1")>>)}}

\* What a model may put in a slides array: slide objects, and also null or a
\* number.
SlideEntries == SlideObjects \cup {Null, Num(7)}

DeckCompletions ==
  {Json(FromPairs(<< <<"presentationTitle", title>>, <<"totalSlides", total>>,
                    <<"slides", slides>> >>)) :
     title \in {Undefined, Str("Q1 Update")},
     total \in {Undefined, Num(0), Num(5)},
     slides \in {Undefined, Null, Str("none"), EmptyObj}
                \cup {Arr(e) : e \in BoundedSeq(SlideEntries, MaxSlides)}}
  \cup {NotJson, Json(Null), Json(Num(1)), Json(Arr(<<>>))}

CssValues == {Undefined, Str(""), Str(":root{--c:#fff;}")}

AnalysisValues ==
  {Undefined, Null, Str(""), Str("note"), Num(5), EmptyObj,
   FromPairs(<< <<"approach", Str("grid")>> >>),
   FromPairs(<< <<"approach", Str("grid")>>, <<"cols", Num(2)>> >>),
   Arr(<<Str("grid")>>)}

TokenCompletions ==
  {Json(FromPairs(<< <<"css", css>>, <<"implementationNote", note>>,
                    <<"cssVariables", cssVariables>>,
                    <<"analysisResult", analysisResult>>,
                    <<"styles", styles>>, <<"analysis", analysis>> >>)) :
     css \in CssValues, note \in AnalysisValues,
     cssVariables \in CssValues, analysisResult \in AnalysisValues,
     styles \in {Undefined, Str("body{}")},
     analysis \in {Undefined, Str("flat")}}
  \cup {NotJson, Json(Null), Json(Num(1)), Json(Str("css")), Json(Arr(<<>>))}

\* The completion { css: c, implementationNote: a }.
NewFormat(c, a) ==
  Json(FromPairs(<< <<"css", c>>, <<"implementationNote", a>> >>))

\* The completion { cssVariables: c, analysisResult: a }.
OriginalFormat(c, a) ==
  Json(FromPairs(<< <<"cssVariables", c>>, <<"analysisResult", a>> >>))

InputChars == {"a", "1", "$", "&", Backquote, "'"}

InputTexts ==
  BoundedSeq(InputChars, MaxInputLen) \cup {Placeholder, Placeholder \o <<"a">>}

\* Template bodies are Prefix \o Placeholder \o Suffix; the prefix holds no
\* placeholder, the suffix may hold further ones.
TemplatePrefixes == {<<>>, <<"p">>, <<"p", "$">>}

TemplateSuffixes ==
  {<<>>, <<"s">>, Placeholder,
   <<"s">> \o Placeholder \o <<"z">> \o Placeholder}

(***************************************************************************)
(* The state after construction: an empty database, no request handled.    *)
(***************************************************************************)
Users == {"u1", "u2"}

Tokens == {"t1", "t2"}

NoKey == [kind |-> "none"]

NoProposal == [present |-> FALSE]

NoRequest == [ep |-> "none"]

NoResponse == [status |-> 0]

Idle == [op |-> "idle"]

InitDb ==
  /\ users = [u \in Users |-> NoKey]
  /\ systemPrompts = <<>>
  /\ designLibraries = <<>>
  /\ proposals = <<>>
  /\ inflight = {}
  /\ done = [t \in Tokens |-> 0]
  /\ overlapped = [t \in Tokens |-> FALSE]
  /\ req = NoRequest
  /\ resp = NoResponse
  /\ net = <<>>
  /\ pending = {}
  /\ accounts = <<>>

db == <<users, systemPrompts, designLibraries, proposals, inflight, done,
        overlapped, req, resp, net, pending, accounts>>

(***************************************************************************)
(* The pure functions, applied to every input of the bounded sets.         *)
(***************************************************************************)
InitFn ==
  /\ InitDb
  /\ fn \in {[op |-> "parseDeck", in |-> c, applied |-> FALSE, out |-> Undefined] :
               c \in DeckCompletions}
       \cup {[op |-> "parseDesignTokens", in |-> c, applied |-> FALSE,
              out |-> Undefined] : c \in TokenCompletions}
       \cup {[op |-> "ResolvePrompt",
              in |-> [prefix |-> p, suffix |-> s, text |-> t],
              applied |-> FALSE, out |-> Undefined] :
               p \in TemplatePrefixes, s \in TemplateSuffixes, t \in InputTexts}

ApplyParseDeck ==
  /\ fn.op = "parseDeck" /\ ~fn.applied
  /\ fn' = [fn EXCEPT !.applied = TRUE, !.out = parseDeck(fn.in)]
  /\ UNCHANGED db

ApplyParseDesignTokens ==
  /\ fn.op = "parseDesignTokens" /\ ~fn.applied
  /\ fn' = [fn EXCEPT !.applied = TRUE, !.out = parseDesignTokens(fn.in)]
  /\ UNCHANGED db

ApplyResolvePrompt ==
  /\ fn.op = "ResolvePrompt" /\ ~fn.applied
  /\ fn' = [fn EXCEPT !.applied = TRUE,
                      !.out = ResolvePrompt(fn.in.prefix \o Placeholder
                                              \o fn.in.suffix, fn.in.text)]
  /\ UNCHANGED db

NextFn == ApplyParseDeck \/ ApplyParseDesignTokens \/ ApplyResolvePrompt

SpecFn == InitFn /\ [][NextFn]_vars

(***************************************************************************)
(* Credentials.  A credential is a sequence of characters.  The stored     *)
(* groqApiKey field is absent, the text that was written to it, or what    *)
(* encrypt() made of a text: iv ":" ciphertext, modelled by the iv and the *)
(* text the ciphertext encrypts.                                           *)
(***************************************************************************)
GskPrefix == <<"g", "s", "k", "_">>

ApiKeys == {GskPrefix \o <<"1">>, <<"s", "k", "-", "1">>}

IVs == {"iv1"}

Plain(text) == [kind |-> "plain", text |-> text]

encrypt(text, iv) == [kind |-> "cipher", iv |-> iv, text |-> text]

\* decrypt(): a value that is not iv ":" ciphertext yields no 16-byte iv, so
\* createDecipheriv throws, and the legacy createDecipher fallback finds no
\* ciphertext to finish on and throws as well.
decrypt(stored) ==
  IF stored.kind = "cipher" THEN Return(stored.text)
  ELSE Throw(<<"Failed", "to", "decrypt", "API", "key", "with", "both", "methods">>)

\* user.getDecryptedApiKey(): null when there is no key or decrypt() throws.
NullKey == [isNull |-> TRUE]

getDecryptedApiKey(stored) ==
  IF stored.kind = "none" THEN NullKey
  ELSE IF decrypt(stored).ok
       THEN [isNull |-> FALSE, key |-> decrypt(stored).value]
       ELSE NullKey

\* !user?.groqApiKey
HasStoredKey(stored) == stored.kind # "none" /\ stored.text # <<>>

\* !apiKey
KeyMissing(apiKey) == apiKey.isNull \/ apiKey.key = <<>>

(***************************************************************************)
(* The remote services: what one fetch() ends in.                          *)
(***************************************************************************)
NoRemote == [kind |-> "none"]

NetworkError == [kind |-> "error"]

Http(status, content) == [kind |-> "http", status |-> status, content |-> content]

ResponseOk(remote) == remote.status >= 200 /\ remote.status <= 299

StatusText(status) ==
  CASE status = 200 -> <<"OK">>
    [] status = 401 -> <<"Unauthorized">>
    [] status = 429 -> <<"Too", "Many", "Requests">>
    [] OTHER -> <<"Error">>

FailureStatuses == {401, 429}

FetchFailed == <<"fetch", "failed">>

\* One outbound request to the chat-completions endpoint.
GroqCall(apiKey, model, prompt) ==
  [to |-> "api.groq.com", bearer |-> apiKey, model |-> model, prompt |-> prompt]

(***************************************************************************)
(* HTTP responses: res.status(status).json({ message, error, ...body }).   *)
(***************************************************************************)
Res(status, message) ==
  [status |-> status, message |-> message, error |-> <<>>]

ResError(status, message, error) ==
  [status |-> status, message |-> message, error |-> error]

ResBody(status, body) ==
  [status |-> status, message |-> "", error |-> <<>>, body |-> body]

NoSession == "anonymous"

Sessions == Users \cup {NoSession}

(***************************************************************************)
(* PromptTemplate documents; the _id of a document is its index in         *)
(* systemPrompts, and an id is never given out twice.                      *)
(***************************************************************************)
Deleted == [present |-> FALSE]

findById(collection, id) ==
  IF id \in 1..Len(collection) THEN collection[id] ELSE Deleted

PromptNames == {"", "brand"}

PromptBodies == {<<>>, <<"p">> \o Placeholder}

PromptIdInputs == 0..(MaxPrompts + 1)

LibraryIdInputs == 0..(MaxLibs + 1)

\* The variables no handler of the model-invoking endpoints writes.
viewVars == <<proposals, inflight, done, overlapped, fn, pending, accounts>>

(***************************************************************************)
(* system-prompts handler.                                                 *)
(***************************************************************************)
NameTaken(name, except) ==
  \E id \in 1..Len(systemPrompts) :
    id # except /\ systemPrompts[id].present /\ systemPrompts[id].name = name

\* Mutant of NameIndexRejects: the collection has no unique index on name.
NameIndexRejects_NoIndex(name, except) == FALSE

\* The unique index on name rejects a write that would give a second stored
\* document the name.
NameIndexRejects(name, except) == NameTaken(name, except)

SystemPromptPost(session, name, description, prompt) ==
  /\ Len(systemPrompts) < MaxPrompts
  /\ req' = [ep |-> "system-prompts POST", session |-> session,
             body |-> [name |-> name, description |-> description,
                       prompt |-> prompt]]
  /\ net' = <<>>
  /\ IF session = NoSession
     THEN resp' = Res(401, "Unauthorized") /\ UNCHANGED systemPrompts
     ELSE IF name = "" \/ description = "" \/ prompt = <<>>
     THEN /\ resp' = Res(400, "Name, description, and prompt are required")
          /\ UNCHANGED systemPrompts
     ELSE IF NameTaken(name, 0)
     THEN /\ resp' = Res(400, "A prompt with this name already exists")
          /\ UNCHANGED systemPrompts
     ELSE /\ systemPrompts' =
               Append(systemPrompts,
                      [present |-> TRUE, name |-> name,
                       description |-> description, prompt |-> prompt,
                       isActive |-> TRUE, category |-> "general",
                       createdBy |-> session])
          /\ resp' = ResBody(201, [id |-> Len(systemPrompts) + 1])
  /\ UNCHANGED <<users, designLibraries, viewVars>>

\* sort({ createdAt: -1 }): the documents found, newest first.
NewestFirst(docs) == [i \in 1..Len(docs) |-> docs[Len(docs) + 1 - i]]

\* GET: SystemPrompt.find(filter); category 'all' or none does not filter,
\* active filters only when it is 'true'.
SystemPromptGet_response(session, category, active) ==
  IF session = NoSession THEN Res(401, "Unauthorized")
  ELSE ResBody(200,
         NewestFirst(SelectSeq(systemPrompts,
           LAMBDA d : /\ d.present
                      /\ category \notin {"", "all"} => d.category = category
                      /\ active = "true" => d.isActive)))

SystemPromptGet(session, category, active) ==
  /\ req' = [ep |-> "system-prompts GET", session |-> session,
             body |-> [category |-> category, active |-> active]]
  /\ net' = <<>>
  /\ resp' = SystemPromptGet_response(session, category, active)
  /\ UNCHANGED <<users, systemPrompts, designLibraries, viewVars>>

\* isActive is "true", "false" or "absent" (not a boolean: not applied); an
\* empty name is not applied.
SystemPromptPut(session, id, name, isActive) ==
  /\ req' = [ep |-> "system-prompts PUT", session |-> session,
             body |-> [id |-> id, name |-> name, isActive |-> isActive]]
  /\ net' = <<>>
  /\ IF session = NoSession
     THEN resp' = Res(401, "Unauthorized") /\ UNCHANGED systemPrompts
     ELSE IF id = 0
     THEN resp' = Res(400, "Prompt ID is required") /\ UNCHANGED systemPrompts
     ELSE IF ~findById(systemPrompts, id).present
     THEN resp' = Res(404, "Prompt not found") /\ UNCHANGED systemPrompts
     ELSE IF name # "" /\ NameIndexRejects(name, id)
     \* the unique index on name rejects the update
     THEN resp' = Res(500, "Internal Server Error") /\ UNCHANGED systemPrompts
     ELSE /\ systemPrompts' =
               [systemPrompts EXCEPT
                  ![id].name = IF name # "" THEN name ELSE @,
                  ![id].isActive = IF isActive = "absent" THEN @
                                   ELSE isActive = "true"]
          /\ resp' = ResBody(200, [id |-> id])
  /\ UNCHANGED <<users, designLibraries, viewVars>>

SystemPromptDelete(session, id) ==
  /\ req' = [ep |-> "system-prompts DELETE", session |-> session,
             body |-> [id |-> id]]
  /\ net' = <<>>
  /\ IF session = NoSession
     THEN resp' = Res(401, "Unauthorized") /\ UNCHANGED systemPrompts
     ELSE IF id = 0
     THEN resp' = Res(400, "Prompt ID is required") /\ UNCHANGED systemPrompts
     ELSE IF ~findById(systemPrompts, id).present
     THEN resp' = Res(404, "Prompt not found") /\ UNCHANGED systemPrompts
     ELSE /\ systemPrompts' = [systemPrompts EXCEPT ![id] = Deleted]
          /\ resp' = Res(200, "Prompt deleted successfully")
  /\ UNCHANGED <<users, designLibraries, viewVars>>

(***************************************************************************)
(* User model and settings handler.                                        *)
(***************************************************************************)
\* A save() of an Account document whose groqApiKey was set to a non-empty
\* text: the pre('save') hook encrypts it.
UserSave(user, groqApiKey, iv) ==
  /\ groqApiKey # <<>>
  /\ users' = [users EXCEPT ![user] = encrypt(groqApiKey, iv)]
  /\ req' = [ep |-> "User.save", session |-> user,
             body |-> [groqApiKey |-> groqApiKey]]
  /\ resp' = NoResponse
  /\ net' = <<>>
  /\ UNCHANGED <<systemPrompts, designLibraries, viewVars>>

\* Mutant of testGroqApiKey: every key is taken as valid.
testGroqApiKey_AlwaysValid(remote) == TRUE

\* testGroqApiKey(): one request with the key as bearer; true iff it succeeds.
testGroqApiKey(remote) == remote.kind = "http" /\ ResponseOk(remote)

\* What findByIdAndUpdate writes: the text as submitted (no save hook runs),
\* or the field removed.
SettingsUpdate(groqApiKey) ==
  IF groqApiKey # <<>> THEN Plain(groqApiKey) ELSE NoKey

SettingsPut(session, groqApiKey, remote) ==
  /\ remote.kind = "none" <=> (session = NoSession \/ groqApiKey = <<>>)
  /\ req' = [ep |-> "settings PUT", session |-> session,
             body |-> [groqApiKey |-> groqApiKey], remote |-> remote]
  /\ net' = IF session # NoSession /\ groqApiKey # <<>>
            THEN <<GroqCall(groqApiKey, "openai/gpt-oss-20b", <<"Hello">>)>>
            ELSE <<>>
  /\ IF session = NoSession
     THEN resp' = Res(401, "Unauthorized") /\ UNCHANGED users
     ELSE IF groqApiKey # <<>> /\ ~testGroqApiKey(remote)
     THEN resp' = Res(400, "Invalid API key") /\ UNCHANGED users
     ELSE /\ users' = [users EXCEPT ![session] = SettingsUpdate(groqApiKey)]
          /\ resp' = ResBody(200, [hasApiKey |-> groqApiKey # <<>>])
  /\ UNCHANGED <<systemPrompts, designLibraries, viewVars>>

\* Mutant of SettingsGet_response: the body also carries the stored field.
SettingsGet_response_WithKey(session, accountKeys) ==
  IF session = NoSession THEN Res(401, "Unauthorized")
  ELSE ResBody(200, [hasApiKey |-> HasStoredKey(accountKeys[session]),
                     groqApiKey |-> accountKeys[session]])

\* The answer of GET, given the groqApiKey field stored for each Account.
SettingsGet_response(session, accountKeys) ==
  IF session = NoSession THEN Res(401, "Unauthorized")
  ELSE ResBody(200, [hasApiKey |-> HasStoredKey(accountKeys[session])])

SettingsGet(session) ==
  /\ req' = [ep |-> "settings GET", session |-> session]
  /\ net' = <<>>
  /\ resp' = SettingsGet_response(session, users)
  /\ UNCHANGED <<users, systemPrompts, designLibraries, viewVars>>

(***************************************************************************)
(* text-to-json: callGroqAPI and the handler.                              *)
(***************************************************************************)
validModels == {"openai/gpt-oss-20b", "openai/gpt-oss-120b"}

PromptNotFound == <<"System", "prompt", "not", "found", "or", "inactive">>

NoResponseContent == <<"No", "response", "content", "from", "Groq", "API">>

\* `Groq API error: ${response.status} ${response.statusText}`
GroqApiError(remote) ==
  <<"Groq", "API", "error:", ToString(remote.status)>> \o StatusText(remote.status)

\* Mutant of TextToJson_prompt: a template that is missing or inactive is
\* replaced by the default prompt.
TextToJson_prompt_DefaultWhenMissing(text, systemPromptId) ==
  LET systemPrompt == findById(systemPrompts, systemPromptId) IN
  IF systemPromptId # 0 /\ systemPrompt.present /\ systemPrompt.isActive
  THEN Return(ResolvePrompt(systemPrompt.prompt, text))
  ELSE Return(ResolvePrompt(DefaultPrompt, text))

\* The template lookup of callGroqAPI: the prompt, or the error thrown.
TextToJson_prompt(text, systemPromptId) ==
  IF systemPromptId # 0
  THEN LET systemPrompt == findById(systemPrompts, systemPromptId) IN
       IF ~systemPrompt.present \/ ~systemPrompt.isActive
       THEN Throw(PromptNotFound)
       ELSE Return(ResolvePrompt(systemPrompt.prompt, text))
  ELSE Return(ResolvePrompt(DefaultPrompt, text))

\* callGroqAPI after the fetch has ended in remote.
TextToJson_afterFetch(remote) ==
  IF remote.kind = "error" THEN Throw(FetchFailed)
  ELSE IF ~ResponseOk(remote) THEN Throw(GroqApiError(remote))
  ELSE IF remote.content.kind = "empty" THEN Throw(NoResponseContent)
  ELSE parseDeck(remote.content)

\* The catch block of the handler.
TextToJson_catch(error) ==
  IF Includes(error, <<"API", "key">>)
  THEN Res(400, "Invalid API key. Please check your Groq API key in settings.")
  ELSE IF Includes(error, <<"rate", "limit">>)
  THEN Res(429, "Rate limit exceeded. Please try again later.")
  ELSE ResError(500, "An error occurred while processing your request", error)

\* Mutant of TextToJson_checks: the model is not compared with validModels.
TextToJson_checks_AnyModel(session, text, model) ==
  IF session = NoSession THEN Res(401, "Unauthorized")
  ELSE IF text = <<>> THEN Res(400, "Text content is required")
  ELSE IF model = "" THEN Res(400, "Model selection is required")
  ELSE IF ~HasStoredKey(users[session])
  THEN Res(400, "Groq API key is required. Please configure your API key in settings.")
  ELSE IF KeyMissing(getDecryptedApiKey(users[session]))
  THEN Res(500, "Error accessing API key")
  ELSE NoResponse

\* The checks of the handler before callGroqAPI: the response of an early
\* return, or NoResponse when callGroqAPI is called.
TextToJson_checks(session, text, model) ==
  IF session = NoSession THEN Res(401, "Unauthorized")
  ELSE IF text = <<>> THEN Res(400, "Text content is required")
  ELSE IF model = "" THEN Res(400, "Model selection is required")
  ELSE IF model \notin validModels THEN Res(400, "Invalid model selection")
  ELSE IF ~HasStoredKey(users[session])
  THEN Res(400, "Groq API key is required. Please configure your API key in settings.")
  ELSE IF KeyMissing(getDecryptedApiKey(users[session]))
  THEN Res(500, "Error accessing API key")
  ELSE NoResponse

\* Does the handler reach the fetch of callGroqAPI?
TextToJson_fetches(session, text, model, systemPromptId) ==
  /\ TextToJson_checks(session, text, model) = NoResponse
  /\ TextToJson_prompt(text, systemPromptId).ok

TextToJson_net(session, text, model, systemPromptId) ==
  IF TextToJson_fetches(session, text, model, systemPromptId)
  THEN <<GroqCall(getDecryptedApiKey(users[session]).key, model,
                  TextToJson_prompt(text, systemPromptId).value)>>
  ELSE <<>>

TextToJson_response(session, text, model, systemPromptId, remote) ==
  IF TextToJson_checks(session, text, model) # NoResponse
  THEN TextToJson_checks(session, text, model)
  ELSE IF ~TextToJson_prompt(text, systemPromptId).ok
  THEN TextToJson_catch(TextToJson_prompt(text, systemPromptId).error)
  ELSE IF TextToJson_afterFetch(remote).ok
  THEN ResBody(200, TextToJson_afterFetch(remote).value)
  ELSE TextToJson_catch(TextToJson_afterFetch(remote).error)

TextToDeck(session, text, model, systemPromptId, remote) ==
  /\ remote.kind # "none" <=> TextToJson_fetches(session, text, model, systemPromptId)
  /\ req' = [ep |-> "text-to-json POST", session |-> session,
             body |-> [text |-> text, model |-> model,
                       systemPromptId |-> systemPromptId],
             remote |-> remote]
  /\ net' = TextToJson_net(session, text, model, systemPromptId)
  /\ resp' = TextToJson_response(session, text, model, systemPromptId, remote)
  /\ UNCHANGED <<users, systemPrompts, designLibraries, viewVars>>

(***************************************************************************)
(* Checks shared by the handlers that read the Account's credential:       *)
(* stored, decryptable, and starting with gsk_.                            *)
(***************************************************************************)
ApiKeyChecks(session) ==
  IF ~HasStoredKey(users[session]) THEN Res(400, "Groq API key not configured")
  ELSE IF KeyMissing(getDecryptedApiKey(users[session]))
  THEN Res(400, "Invalid Groq API key")
  ELSE IF ~StartsWith(getDecryptedApiKey(users[session]).key, GskPrefix)
  THEN Res(400, "Invalid Groq API key format")
  ELSE NoResponse

NoContentReceived == <<"No", "content", "received", "from", "Groq", "API">>

\* `Groq API error: ${response.status} ${response.statusText} - ${errorText}`
GroqApiErrorWithBody(remote) == GroqApiError(remote) \o <<"-", "errorText">>

(***************************************************************************)
(* design-library: callGroqVisionAPI and the POST branch of the handler.   *)
(***************************************************************************)
callGroqVisionAPI(remote) ==
  IF remote.kind = "error" THEN Throw(FetchFailed)
  ELSE IF ~ResponseOk(remote) THEN Throw(GroqApiErrorWithBody(remote))
  ELSE IF remote.content.kind = "empty" THEN Throw(NoContentReceived)
  ELSE parseDesignTokens(remote.content)

\* Math.ceil((imageBase64.length * 3) / 4) / (1024 * 1024) > 4
ImageTooLarge(length) == (length * 3 + 3) \div 4 > 4 * 1024 * 1024

DesignLibrary_checks(session, name, description, imageLength, systemPromptId) ==
  IF session = NoSession THEN Res(401, "Unauthorized")
  ELSE IF name = "" \/ description = "" \/ imageLength = 0 \/ systemPromptId = 0
  THEN Res(400, "Name, description, image, and system prompt are required")
  ELSE IF \/ ~findById(systemPrompts, systemPromptId).present
          \/ ~findById(systemPrompts, systemPromptId).isActive
  THEN Res(400, "System prompt not found or inactive")
  ELSE IF ApiKeyChecks(session) # NoResponse THEN ApiKeyChecks(session)
  ELSE IF imageLength < 100 THEN Res(400, "Invalid image data")
  ELSE IF ImageTooLarge(imageLength)
  THEN Res(400, "Image too large. Maximum size is 4MB")
  ELSE NoResponse

\* The cast of a String path of a schema: a string is kept, a number becomes
\* its text, an object or an array is a CastError.
castString(v) ==
  CASE v.t = "string" -> Return(v.s)
    [] v.t = "number" -> Return(ToString(v.n))
    [] OTHER -> Throw(<<"CastError">>)

\* String.prototype.trim, on the texts the model's completions carry.
trim(s) == IF s = " " THEN "" ELSE s

\* Mutant of DesignLibrary_create: the required validators of cssVariables and
\* analysisResult are not run.
DesignLibrary_create_NotRequired(name, description, result, systemPromptId, session) ==
  IF castString(result.cssVariables).ok /\ castString(result.analysisResult).ok
  THEN Return([present |-> TRUE, name |-> name, description |-> description,
               cssVariables |-> trim(castString(result.cssVariables).value),
               analysisResult |-> trim(castString(result.analysisResult).value),
               systemPromptId |-> systemPromptId, createdBy |-> session])
  ELSE Throw(<<"ValidationError">>)

\* DesignLibrary.create(): the document, or the validation error thrown. The
\* setters (trim) run before the validators; required rejects the empty text.
DesignLibrary_create(name, description, result, systemPromptId, session) ==
  IF castString(result.cssVariables).ok /\ castString(result.analysisResult).ok
  THEN LET cssVariables == trim(castString(result.cssVariables).value)
           analysisResult == trim(castString(result.analysisResult).value)
       IN IF cssVariables = "" \/ analysisResult = ""
          THEN Throw(<<"ValidationError">>)
          ELSE Return([present |-> TRUE, name |-> name,
                       description |-> description,
                       cssVariables |-> cssVariables,
                       analysisResult |-> analysisResult,
                       systemPromptId |-> systemPromptId,
                       createdBy |-> session])
  ELSE Throw(<<"ValidationError">>)

\* Mutant of DesignLibrary_persist: a failed model call leaves a record with
\* empty cssVariables and analysisResult behind.
DesignLibrary_persist_PlaceholderOnFailure(session, name, description, systemPromptId, remote) ==
  LET result == callGroqVisionAPI(remote)
      placeholder == [present |-> TRUE, name |-> name,
                      description |-> description, cssVariables |-> "",
                      analysisResult |-> "", systemPromptId |-> systemPromptId,
                      createdBy |-> session]
  IN
  IF ~result.ok
  THEN [resp |-> ResError(400, "Groq API error", result.error),
        created |-> <<placeholder>>]
  ELSE IF \/ ~Truthy(result.value.cssVariables)
          \/ ~Truthy(result.value.analysisResult)
  THEN [resp |-> Res(400, "Failed to analyze image. Please try again."),
        created |-> <<>>]
  ELSE LET doc == DesignLibrary_create(name, description, result.value,
                                       systemPromptId, session) IN
       IF doc.ok
       THEN [resp |-> ResBody(201, doc.value), created |-> <<doc.value>>]
       ELSE [resp |-> Res(500, "Internal Server Error"), created |-> <<>>]

\* The handler from the call of callGroqVisionAPI on: the response, and the
\* document created, if any.
DesignLibrary_persist(session, name, description, systemPromptId, remote) ==
  LET result == callGroqVisionAPI(remote) IN
  IF ~result.ok
  THEN [resp |-> ResError(400, "Groq API error", result.error), created |-> <<>>]
  ELSE IF \/ ~Truthy(result.value.cssVariables)
          \/ ~Truthy(result.value.analysisResult)
  THEN [resp |-> Res(400, "Failed to analyze image. Please try again."),
        created |-> <<>>]
  ELSE LET doc == DesignLibrary_create(name, description, result.value,
                                       systemPromptId, session) IN
       IF doc.ok
       THEN [resp |-> ResBody(201, doc.value), created |-> <<doc.value>>]
       ELSE [resp |-> Res(500, "Internal Server Error"), created |-> <<>>]

DesignLibraryPost(session, name, description, imageLength, systemPromptId, remote) ==
  LET early == DesignLibrary_checks(session, name, description, imageLength,
                                    systemPromptId)
      fetches == early = NoResponse
      outcome == DesignLibrary_persist(session, name, description,
                                       systemPromptId, remote)
  IN
  /\ Len(designLibraries) < MaxLibs
  /\ remote.kind # "none" <=> fetches
  /\ req' = [ep |-> "design-library POST", session |-> session,
             body |-> [name |-> name, description |-> description,
                       imageLength |-> imageLength,
                       systemPromptId |-> systemPromptId],
             remote |-> remote]
  /\ net' = IF fetches
            THEN <<GroqCall(getDecryptedApiKey(users[session]).key,
                            "meta-llama/llama-4-scout-17b-16e-instruct",
                            findById(systemPrompts, systemPromptId).prompt)>>
            ELSE <<>>
  /\ resp' = IF fetches THEN outcome.resp ELSE early
  /\ designLibraries' = IF fetches THEN designLibraries \o outcome.created
                        ELSE designLibraries
  /\ UNCHANGED <<users, systemPrompts, viewVars>>

\* populate('systemPromptId', 'name'): the reference is replaced by the _id
\* and name of the template, or by null when it is gone.
populate(doc) ==
  [doc EXCEPT
     !.systemPromptId =
        IF findById(systemPrompts, doc.systemPromptId).present
        THEN [id |-> doc.systemPromptId,
              name |-> findById(systemPrompts, doc.systemPromptId).name]
        ELSE Null]

\* GET: the caller's own records, newest first.
DesignLibraryGet_response(session) ==
  IF session = NoSession THEN Res(401, "Unauthorized")
  ELSE LET found == SelectSeq(designLibraries,
                      LAMBDA d : d.present /\ d.createdBy = session)
       IN ResBody(200, NewestFirst([i \in 1..Len(found) |-> populate(found[i])]))

DesignLibraryGet(session) ==
  /\ req' = [ep |-> "design-library GET", session |-> session]
  /\ net' = <<>>
  /\ resp' = DesignLibraryGet_response(session)
  /\ UNCHANGED <<users, systemPrompts, designLibraries, viewVars>>

\* Mutant of DesignLibraryPut: the update also writes the given name into
\* cssVariables.
DesignLibraryPut_OverwritesCss(session, id, name, description) ==
  /\ req' = [ep |-> "design-library PUT", session |-> session,
             body |-> [id |-> id, name |-> name, description |-> description]]
  /\ net' = <<>>
  /\ IF session = NoSession
     THEN resp' = Res(401, "Unauthorized") /\ UNCHANGED designLibraries
     ELSE IF id = 0
     THEN /\ resp' = Res(400, "Design library ID is required")
          /\ UNCHANGED designLibraries
     ELSE IF ~findById(designLibraries, id).present
     THEN /\ resp' = Res(404, "Design library not found")
          /\ UNCHANGED designLibraries
     ELSE /\ designLibraries' =
               [designLibraries EXCEPT
                  ![id].name = IF name # "" THEN name ELSE @,
                  ![id].cssVariables = IF name # "" THEN name ELSE @]
          /\ resp' = ResBody(200, designLibraries'[id])
  /\ UNCHANGED <<users, systemPrompts, viewVars>>

\* PUT: name and description are replaced when given.
DesignLibraryPut(session, id, name, description) ==
  /\ req' = [ep |-> "design-library PUT", session |-> session,
             body |-> [id |-> id, name |-> name, description |-> description]]
  /\ net' = <<>>
  /\ IF session = NoSession
     THEN resp' = Res(401, "Unauthorized") /\ UNCHANGED designLibraries
     ELSE IF id = 0
     THEN /\ resp' = Res(400, "Design library ID is required")
          /\ UNCHANGED designLibraries
     ELSE IF ~findById(designLibraries, id).present
     THEN /\ resp' = Res(404, "Design library not found")
          /\ UNCHANGED designLibraries
     ELSE /\ designLibraries' =
               [designLibraries EXCEPT
                  ![id].name = IF name # "" THEN name ELSE @,
                  ![id].description = IF description # "" THEN description
                                      ELSE @]
          /\ resp' = ResBody(200, designLibraries'[id])
  /\ UNCHANGED <<users, systemPrompts, viewVars>>

\* DELETE: findByIdAndDelete.
DesignLibraryDelete(session, id) ==
  /\ req' = [ep |-> "design-library DELETE", session |-> session,
             body |-> [id |-> id]]
  /\ net' = <<>>
  /\ IF session = NoSession
     THEN resp' = Res(401, "Unauthorized") /\ UNCHANGED designLibraries
     ELSE IF id = 0
     THEN /\ resp' = Res(400, "Design library ID is required")
          /\ UNCHANGED designLibraries
     ELSE IF ~findById(designLibraries, id).present
     THEN /\ resp' = Res(404, "Design library not found")
          /\ UNCHANGED designLibraries
     ELSE /\ designLibraries' = [designLibraries EXCEPT ![id] = Deleted]
          /\ resp' = Res(200, "Design library deleted successfully")
  /\ UNCHANGED <<users, systemPrompts, viewVars>>

(***************************************************************************)
(* generate-html-presentation and improve-html: callGroqAPI returns the    *)
(* completion as it is; the handlers answer any error thrown with          *)
(* 500 Internal Server Error.                                              *)
(***************************************************************************)
Html_callGroqAPI(remote) ==
  IF remote.kind = "error" THEN Throw(FetchFailed)
  ELSE IF ~ResponseOk(remote) THEN Throw(GroqApiErrorWithBody(remote))
  ELSE IF remote.content.kind = "empty" THEN Throw(NoContentReceived)
  ELSE Return(remote.content)

\* The catch block of both handlers.
Html_catch(error) == Res(500, "Internal Server Error")

GenerateHtml_checks(session, jsonData, designLibraryId) ==
  IF session = NoSession THEN Res(401, "Unauthorized")
  ELSE IF ~Truthy(jsonData) \/ designLibraryId = 0
  THEN Res(400, "JSON data and design library ID are required")
  ELSE IF \/ ~Truthy(Get(jsonData, "slides"))
          \/ Get(jsonData, "slides").t # "array"
          \/ ~Truthy(Get(jsonData, "presentationTitle"))
  THEN Res(400, "Invalid JSON data structure")
  ELSE IF ~findById(designLibraries, designLibraryId).present
  THEN Res(404, "Design library not found")
  ELSE ApiKeyChecks(session)

GenerateHtml(session, jsonData, designLibraryId, remote) ==
  LET early == GenerateHtml_checks(session, jsonData, designLibraryId)
      fetches == early = NoResponse
      html == Html_callGroqAPI(remote)
  IN
  /\ remote.kind # "none" <=> fetches
  /\ req' = [ep |-> "generate-html-presentation POST", session |-> session,
             body |-> [jsonData |-> jsonData, designLibraryId |-> designLibraryId],
             remote |-> remote]
  /\ net' = IF fetches
            THEN <<GroqCall(getDecryptedApiKey(users[session]).key,
                            "openai/gpt-oss-120b", <<"userPrompt">>)>>
            ELSE <<>>
  /\ resp' = IF ~fetches THEN early
             ELSE IF html.ok
             THEN ResBody(200,
                    [html |-> html.value,
                     designLibraryName |->
                       findById(designLibraries, designLibraryId).name,
                     presentationTitle |-> Get(jsonData, "presentationTitle"),
                     totalSlides |-> Len(Get(jsonData, "slides").e)])
             ELSE Html_catch(html.error)
  /\ UNCHANGED <<users, systemPrompts, designLibraries, viewVars>>

ImproveHtml_checks(session, htmlLength, promptLength) ==
  IF session = NoSession THEN Res(401, "Unauthorized")
  ELSE IF htmlLength = 0 \/ promptLength = 0
  THEN Res(400, "HTML content and improvement prompt are required")
  ELSE IF htmlLength < 100 THEN Res(400, "Invalid HTML content")
  ELSE IF promptLength < 10
  THEN Res(400, "Improvement prompt must be at least 10 characters long")
  ELSE ApiKeyChecks(session)

\* html and prompt are given by their lengths (the prompt's after trim()).
ImproveHtml(session, htmlLength, promptLength, remote) ==
  LET early == ImproveHtml_checks(session, htmlLength, promptLength)
      fetches == early = NoResponse
      html == Html_callGroqAPI(remote)
  IN
  /\ remote.kind # "none" <=> fetches
  /\ req' = [ep |-> "improve-html POST", session |-> session,
             body |-> [htmlLength |-> htmlLength, promptLength |-> promptLength],
             remote |-> remote]
  /\ net' = IF fetches
            THEN <<GroqCall(getDecryptedApiKey(users[session]).key,
                            "openai/gpt-oss-120b", <<"userPrompt">>)>>
            ELSE <<>>
  /\ resp' = IF ~fetches THEN early
             ELSE IF html.ok
             THEN ResBody(200, [html |-> html.value,
                                presentationTitle |-> "Improved Presentation",
                                totalSlides |-> 0,
                                designLibraryName |-> "Enhanced Design"])
             ELSE Html_catch(html.error)
  /\ UNCHANGED <<users, systemPrompts, designLibraries, viewVars>>

(***************************************************************************)
(* The requests of the model, and the specification of the handlers that   *)
(* invoke the remote model.  Requests come from the session of Account u1  *)
(* or from no session.                                                     *)
(***************************************************************************)
Callers == {"u1", NoSession}

Texts == {<<>>, <<"a">>}

Models == {"", "gpt-made-up"} \cup validModels

SampleDeck ==
  FromPairs(<< <<"presentationTitle", Str("Q1 Update")>>,
               <<"totalSlides", Num(5)>>,
               <<"slides", Arr(<<FromPairs(<< <<"title", Str("T")>> >>)>>)>> >>)

FailedOutcomes ==
  {NetworkError} \cup {Http(status, NoContent) : status \in FailureStatuses}

DeckOutcomes ==
  FailedOutcomes
  \cup {Http(200, c) :
          c \in {NoContent, NotJson, Json(SampleDeck),
                 Json(FromPairs(<< <<"presentationTitle", Str("Q1 Update")>> >>))}}

VisionOutcomes ==
  FailedOutcomes
  \cup {Http(200, c) :
          c \in {NoContent, NotJson, Json(EmptyObj),
                 NewFormat(Str(":root{--c:#fff;}"),
                           FromPairs(<< <<"approach", Str("grid")>> >>)),
                 OriginalFormat(Str(":root{--c:#fff;}"), Str("note")),
                 OriginalFormat(Str(" "), Str("note")),
                 OriginalFormat(Str(":root{--c:#fff;}"),
                                FromPairs(<< <<"approach", Str("grid")>> >>))}}

HtmlOutcomes == FailedOutcomes \cup {Http(200, NoContent), Http(200, NotJson)}

TestOutcomes == FailedOutcomes \cup {Http(200, NotJson)}

ImageLengths == {0, 99, 100, 5592405, 5592406}

Init == InitDb /\ fn = Idle

\* The values a request may carry in one field of its body; a request
\* without a session is answered before its body is read.
Field(session, values, unread) ==
  IF session = NoSession THEN {unread} ELSE values

Next ==
  \/ \E session \in Callers :
       \E name \in Field(session, PromptNames, ""),
          prompt \in Field(session, PromptBodies, <<>>) :
         SystemPromptPost(session, name, "d", prompt)
  \/ \E session \in Callers :
       \E id \in Field(session, PromptIdInputs, 0),
          name \in Field(session, PromptNames, ""),
          isActive \in Field(session, {"absent", "true", "false"}, "absent") :
         SystemPromptPut(session, id, name, isActive)
  \/ \E session \in Callers :
       \E id \in Field(session, PromptIdInputs, 0) :
         SystemPromptDelete(session, id)
  \/ \E groqApiKey \in ApiKeys, iv \in IVs : UserSave("u1", groqApiKey, iv)
  \/ \E session \in Callers :
       \E groqApiKey \in Field(session, ApiKeys \cup {<<>>}, <<>>),
          remote \in TestOutcomes \cup {NoRemote} :
         SettingsPut(session, groqApiKey, remote)
  \/ \E session \in Callers : SettingsGet(session)
  \/ \E session \in Callers :
       \E category \in Field(session, {"all", "design"}, ""),
          active \in Field(session, {"", "true"}, "") :
         SystemPromptGet(session, category, active)
  \/ \E session \in Sessions : DesignLibraryGet(session)
  \/ \E session \in Callers :
       \E text \in Field(session, Texts, <<>>),
          model \in Field(session, Models, ""),
          systemPromptId \in Field(session, PromptIdInputs, 0),
          remote \in DeckOutcomes \cup {NoRemote} :
         TextToDeck(session, text, model, systemPromptId, remote)
  \/ \E session \in Callers :
       \E name \in Field(session, {"", "Brand kit"}, ""),
          imageLength \in Field(session, ImageLengths, 0),
          systemPromptId \in Field(session, PromptIdInputs, 0),
          remote \in VisionOutcomes \cup {NoRemote} :
         DesignLibraryPost(session, name, "d", imageLength, systemPromptId, remote)
  \/ \E session \in Sessions :
       \E id \in Field(session, LibraryIdInputs, 0),
          name \in Field(session, {"", "Kit"}, "") :
         DesignLibraryPut(session, id, name, "")
  \/ \E session \in Sessions :
       \E id \in Field(session, LibraryIdInputs, 0) :
         DesignLibraryDelete(session, id)
  \/ \E session \in Callers :
       \E jsonData \in Field(session, {Undefined, EmptyObj, SampleDeck}, Undefined),
          designLibraryId \in Field(session, LibraryIdInputs, 0),
          remote \in HtmlOutcomes \cup {NoRemote} :
         GenerateHtml(session, jsonData, designLibraryId, remote)
  \/ \E session \in Callers :
       \E htmlLength \in Field(session, {0, 99, 100}, 0),
          promptLength \in Field(session, {0, 9, 10}, 0),
          remote \in HtmlOutcomes \cup {NoRemote} :
         ImproveHtml(session, htmlLength, promptLength, remote)

Spec == Init /\ [][Next]_vars

(***************************************************************************)
(* Claims about the pure functions (checked under SpecFn).                 *)
(***************************************************************************)
\* A completion of deck shape: a JSON object whose slides field is an array
\* of slide objects.
ValidDeckShape(c) ==
  /\ c.kind = "json"
  /\ c.v.t = "object"
  /\ Get(c.v, "slides").t = "array"
  /\ \A i \in 1..Len(Get(c.v, "slides").e) : Get(c.v, "slides").e[i].t = "object"

\* The i-th returned slide is the i-th entry: it has every field of the entry,
\* with the entry's value for every field but id and type.
SameSlide(entry, slide) ==
  /\ DOMAIN entry.f \subseteq DOMAIN slide.f
  /\ \A key \in DOMAIN entry.f \ {"id", "type"} : slide.f[key] = entry.f[key]
  /\ Truthy(Get(entry, "id")) => Get(slide, "id") = Get(entry, "id")

\* C1: for a completion of deck shape with N slide entries the normalizer
\* returns exactly N slides, in the order of the entries, each with a
\* non-empty id, and totalSlides = N whatever totalSlides the completion had.
C1_DeckKeepsEverySlide ==
  (fn.op = "parseDeck" /\ fn.applied /\ ValidDeckShape(fn.in)) =>
    LET entries == Get(fn.in.v, "slides").e IN
    /\ fn.out.ok
    /\ Len(fn.out.value.slides) = Len(entries)
    /\ fn.out.value.totalSlides = Len(entries)
    /\ \A i \in 1..Len(entries) :
         /\ SameSlide(entries[i], fn.out.value.slides[i])
         /\ Truthy(Get(fn.out.value.slides[i], "id"))
         /\ Get(fn.out.value.slides[i], "id") # Str("")

\* C1 witness: a deck with MaxSlides entries, one of them without an id, whose
\* own totalSlides (5) contradicts the number of entries.
C1_Witness ==
  /\ fn.op = "parseDeck" /\ fn.applied /\ ValidDeckShape(fn.in)
  /\ Get(fn.in.v, "totalSlides") = Num(5)
  /\ Len(Get(fn.in.v, "slides").e) = MaxSlides
  /\ \E i \in 1..MaxSlides : ~Truthy(Get(Get(fn.in.v, "slides").e[i], "id"))
  /\ fn.out.ok /\ fn.out.value.totalSlides = MaxSlides

\* C3: for any c and a, the normalizer returns for { css: c,
\* implementationNote: a } what it returns for { cssVariables: c,
\* analysisResult: a }.
C3_SameCanonicalPair ==
  \A c \in CssValues, a \in AnalysisValues :
    (fn.op = "parseDesignTokens" /\ fn.applied /\ fn.in = NewFormat(c, a)) =>
      fn.out = parseDesignTokens(OriginalFormat(c, a))

\* The analysis value a completion carries: the first truthy one of
\* implementationNote, analysisResult and analysis.
AnalysisOf(c) ==
  Or(Or(Get(c.v, "implementationNote"), Get(c.v, "analysisResult")),
     Get(c.v, "analysis"))

\* C4: whatever the variant, the analysisResult the normalizer returns is a
\* string; a non-string analysis value is returned as its JSON text with
\* 2-space indentation.
C4_AnalysisResultIsString ==
  (fn.op = "parseDesignTokens" /\ fn.applied /\ fn.out.ok) =>
    /\ fn.out.value.analysisResult.t = "string"
    /\ (Truthy(AnalysisOf(fn.in)) /\ AnalysisOf(fn.in).t # "string") =>
         fn.out.value.analysisResult = Str(JSONstringify(AnalysisOf(fn.in)))

\* C5: the prompt resolved from Prefix + '{text}' + Suffix and the text t is
\* Prefix + t + Suffix.
C5_SubstitutionRoundTrip ==
  (fn.op = "ResolvePrompt" /\ fn.applied) =>
    fn.out = fn.in.prefix \o fn.in.text \o fn.in.suffix

(***************************************************************************)
(* Claims about the handlers (checked under Spec).                         *)
(***************************************************************************)
\* The last request reached the remote model, which answered with a
\* success status.
RemoteAnswered == req.remote.kind = "http" /\ ResponseOk(req.remote)

\* C2: a completion that is not JSON ends text-to-json and design-library
\* POST in the failure 'Invalid JSON response ...': the response carries no
\* deck, and the step leaves the DesignLibrary records as they were.
C2_NotJsonAlwaysFails ==
  [][/\ (req'.ep = "text-to-json POST" /\ RemoteAnswered'
           /\ req'.remote.content.kind = "text") =>
          /\ resp'.status >= 400
          /\ resp'.error = InvalidJsonFromModel
          /\ "body" \notin DOMAIN resp'
     /\ (req'.ep = "design-library POST" /\ RemoteAnswered'
           /\ req'.remote.content.kind = "text") =>
          /\ resp'.status >= 400
          /\ resp'.error = InvalidJsonFromGroq
          /\ designLibraries' = designLibraries]_vars

\* C2 witness: a design-library POST that passed every check and whose
\* completion was not JSON.
C2_Witness ==
  /\ req.ep = "design-library POST" /\ RemoteAnswered
  /\ req.remote.content.kind = "text"
  /\ resp.status = 400 /\ designLibraries = <<>>

\* The endpoints that send the Account's stored credential to the remote
\* model.
PipelineEndpoints ==
  {"text-to-json POST", "design-library POST",
   "generate-html-presentation POST", "improve-html POST"}

\* The request came with a credential that lacks the gsk_ prefix: the one
\* submitted to settings PUT, or the stored one as decrypted.
CredentialLacksPrefix ==
  \/ /\ req.ep = "settings PUT" /\ req.session # NoSession
     /\ req.body.groqApiKey # <<>>
     /\ ~StartsWith(req.body.groqApiKey, GskPrefix)
  \/ /\ req.ep \in PipelineEndpoints /\ req.session # NoSession
     /\ ~KeyMissing(getDecryptedApiKey(users[req.session]))
     /\ ~StartsWith(getDecryptedApiKey(users[req.session]).key, GskPrefix)

\* C7: a request whose credential does not start with gsk_ is rejected and
\* makes no outbound call.
C7_NoCallWithoutGskPrefix ==
  CredentialLacksPrefix => (resp.status >= 400 /\ net = <<>>)

\* C8: a text-to-json request of a session whose model is not allow-listed
\* is answered 400 without an outbound call, with 'Invalid model selection'
\* when it carries a text and a non-empty model.
C8_InvalidModelRejected ==
  (req.ep = "text-to-json POST" /\ req.session # NoSession
     /\ req.body.model \notin validModels) =>
    /\ resp.status = 400
    /\ net = <<>>
    /\ (req.body.text # <<>> /\ req.body.model # "") =>
         resp.message = "Invalid model selection"

\* C8 witness: 'gpt-made-up' sent with a text, a template and a usable stored
\* credential.
C8_Witness ==
  /\ req.ep = "text-to-json POST" /\ req.session = "u1"
  /\ req.body.model = "gpt-made-up" /\ req.body.text # <<>>
  /\ ~KeyMissing(getDecryptedApiKey(users["u1"]))
  /\ findById(systemPrompts, req.body.systemPromptId).present
  /\ resp.message = "Invalid model selection" /\ net = <<>>

\* C9: when the remote model answers with a non-success status, the response
\* of a pipeline endpoint is an error whose body carries that status, and
\* the request made one outbound call.
C9_UpstreamStatusPreserved ==
  (req.ep \in PipelineEndpoints /\ req.remote.kind = "http"
     /\ ~ResponseOk(req.remote)) =>
    /\ resp.status >= 400
    /\ Includes(resp.error, <<ToString(req.remote.status)>>)
    /\ Len(net) = 1

\* C10: a design-library POST answered 201 adds exactly the returned record;
\* one answered otherwise leaves the records as they were.
C10_OneRecordOrNone ==
  [][req'.ep = "design-library POST" =>
       IF resp'.status = 201
       THEN designLibraries' = Append(designLibraries, resp'.body)
       ELSE designLibraries' = designLibraries]_vars

\* C10 witness: a design-library POST answered 201, its record stored.
C10_Witness ==
  /\ req.ep = "design-library POST" /\ resp.status = 201
  /\ Len(designLibraries) = 1 /\ designLibraries[1] = resp.body

(***************************************************************************)
(* Shared proposals: the proposals handler and the proposal page, whose     *)
(* getServerSideProps awaits three times (findOne, the geo lookup, save);   *)
(* runs of different requests interleave at these points.                   *)
(***************************************************************************)
Runs == 1..MaxInflight

Host == "proposals.example"

Htmls == {<<>>, <<"<a href=http://", "localhost:3000", "/p>">>}

ProposalNames == {"", "Offer"}

Ips == {"203.0.113.7"}

\* What the lookup at ipapi.co can do: answer 200 with the place, answer 200
\* with a body that has none of the three fields, answer with a non-success
\* status, fail (fetch throws), or answer 200 with a body that json() cannot
\* parse.
GeoOutcomes ==
  {[kind |-> "ok",
    data |-> FromPairs(<<<<"city", Str("Pune")>>, <<"region", Str("MH")>>,
                         <<"country_name", Str("India")>>>>)],
   [kind |-> "ok", data |-> FromPairs(<<<<"error", Str("true")>>>>)],
   [kind |-> "status"],
   [kind |-> "throws"],
   [kind |-> "unparsable"]}

\* ${v} in a template literal, for the values the lookup yields.
Interpolate(v) == IF v.t = "string" THEN v.s ELSE "undefined"

\* Mutant of locationOf: the place is composed whenever the lookup returned
\* a response, whatever its status.
locationOf_IgnoresStatus(outcome) ==
  IF outcome.kind \in {"ok", "status"}
  THEN "undefined, undefined, undefined"
  ELSE "unknown"

\* The location of a view: 'unknown' unless the lookup answered 200.
locationOf(outcome) ==
  IF outcome.kind = "ok"
  THEN Interpolate(Get(outcome.data, "city")) \o ", "
         \o Interpolate(Get(outcome.data, "region")) \o ", "
         \o Interpolate(Get(outcome.data, "country_name"))
  ELSE "unknown"

\* html.replace(/localhost:3000/g, host)
replaceHost(html, host) ==
  [i \in DOMAIN html |-> IF html[i] = "localhost:3000" THEN host ELSE html[i]]

\* The _ids of the stored proposals with a share token.
IdsOf(shareableLink) ==
  {i \in 1..Len(proposals) : proposals[i].shareableLink = shareableLink}

\* Proposal.findOne({ shareableLink }): the first such document, or null.
findOne(shareableLink) ==
  IF IdsOf(shareableLink) = {} THEN NoProposal
  ELSE proposals[CHOOSE i \in IdsOf(shareableLink) :
                   \A j \in IdsOf(shareableLink) : i <= j]

\* Mutant of DuplicateKey: the collection has no unique index.
DuplicateKey_NoIndex(shareableLink) == FALSE

\* The unique index on shareableLink rejects the insert of a second
\* document with a token in use.
DuplicateKey(shareableLink) == IdsOf(shareableLink) # {}

\* POST: Proposal.create with a token drawn by randomBytes and the schema
\* defaults; an error of create is answered 500.
ProposalPost(session, name, html, shareableLink) ==
  LET doc == [present |-> TRUE, id |-> Len(proposals) + 1, name |-> name,
              html |-> html, shareableLink |-> shareableLink,
              user |-> session, views |-> 0, viewDetails |-> <<>>]
      response ==
        IF session = NoSession THEN Res(401, "Unauthorized")
        ELSE IF name = "" \/ html = <<>> THEN Res(400, "Missing name or html")
        ELSE IF DuplicateKey(shareableLink)
        THEN Res(500, "Internal Server Error")
        ELSE ResBody(201, doc)
  IN
  /\ response.status = 201 => Len(proposals) < MaxProposals
  /\ req' = [ep |-> "proposals POST", session |-> session,
             body |-> [name |-> name, html |-> html],
             shareableLink |-> shareableLink]
  /\ resp' = response
  /\ net' = <<>>
  /\ proposals' = IF response.status = 201 THEN Append(proposals, doc)
                  ELSE proposals
  /\ UNCHANGED <<users, systemPrompts, designLibraries, inflight, done,
                 overlapped, fn,
                 pending, accounts>>

\* GET /api/proposals?shareableLink=...: public, and it records no view.
ProposalGet(shareableLink) ==
  /\ req' = [ep |-> "proposals GET", session |-> NoSession,
             body |-> [shareableLink |-> shareableLink]]
  /\ resp' = IF findOne(shareableLink).present
             THEN ResBody(200, findOne(shareableLink))
             ELSE Res(404, "Proposal not found")
  /\ net' = <<>>
  /\ UNCHANGED <<users, systemPrompts, designLibraries, proposals, inflight,
                 done, overlapped, fn,
                 pending, accounts>>

\* GET /api/proposals without a shareableLink: Proposal.find({}), public as
\* well, and it records no view.
ProposalList ==
  /\ req' = [ep |-> "proposals list", session |-> NoSession, body |-> <<>>]
  /\ resp' = ResBody(200, proposals)
  /\ net' = <<>>
  /\ UNCHANGED <<users, systemPrompts, designLibraries, proposals, inflight,
                 done, overlapped, fn,
                 pending, accounts>>

\* The runs of getServerSideProps in flight for a token.
RunsFor(shareableLink) == {r \in inflight : r.shareableLink = shareableLink}

\* The number of runs started so far, completed or in flight.
Started ==
  LET RECURSIVE Sum(_)
      Sum(T) == IF T = {} THEN 0
                ELSE LET t == CHOOSE x \in T : TRUE
                     IN done[t] + Sum(T \ {t})
  IN Sum(Tokens) + Cardinality(inflight)

\* Mutant of trackView: a view whose location is unknown is counted but
\* gets no viewDetails entry.
trackView_DropsUnknownLocation(proposal, ip, location) ==
  [proposal EXCEPT
     !.views = @ + 1,
     !.viewDetails = IF location = "unknown" THEN @
                     ELSE Append(@, [ip |-> ip, location |-> location])]

\* proposal.views += 1; proposal.viewDetails.push({ip, location, timestamp})
\* on the document the run loaded (the timestamp is left out).
trackView(proposal, ip, location) ==
  [proposal EXCEPT
     !.views = @ + 1,
     !.viewDetails = Append(@, [ip |-> ip, location |-> location])]

\* proposal.save() writes the changes made to the loaded document: views is
\* set to the loaded document's value, the pushed entries are appended to
\* the stored array.
save(stored, loaded, changed) ==
  [stored EXCEPT
     !.views = changed.views,
     !.viewDetails =
        @ \o SubSeq(changed.viewDetails, Len(loaded.viewDetails) + 1,
                    Len(changed.viewDetails))]

\* getServerSideProps up to the first await: Proposal.findOne.
ResolveFindOne(run, shareableLink, ip) ==
  /\ \A r \in inflight : r.run # run
  /\ Started < MaxViews
  /\ req' = [ep |-> "proposal page", session |-> NoSession,
             body |-> [shareableLink |-> shareableLink]]
  /\ net' = <<>>
  /\ IF findOne(shareableLink).present
     THEN /\ inflight' = inflight \cup
               {[run |-> run, shareableLink |-> shareableLink, ip |-> ip,
                 proposal |-> findOne(shareableLink), pc |-> "geo",
                 lookup |-> "none", location |-> "unknown"]}
          /\ overlapped' =
               [overlapped EXCEPT
                  ![shareableLink] = @ \/ RunsFor(shareableLink) # {}]
          /\ resp' = NoResponse
     ELSE /\ resp' = [status |-> 404, notFound |-> TRUE]
          /\ UNCHANGED <<inflight, overlapped>>
  /\ UNCHANGED <<users, systemPrompts, designLibraries, proposals, done, fn,
                 pending, accounts>>

\* The lookup of the location, whose failure is caught.
ResolveGeo(run, outcome) ==
  \E r \in inflight :
    /\ r.run = run /\ r.pc = "geo"
    /\ inflight' = (inflight \ {r}) \cup
         {[r EXCEPT !.pc = "save", !.lookup = outcome.kind,
                    !.location = locationOf(outcome)]}
    /\ net' = <<[to |-> "ipapi.co", ip |-> r.ip]>>
    /\ req' = [ep |-> "proposal page", session |-> NoSession,
               body |-> [shareableLink |-> r.shareableLink]]
    /\ resp' = NoResponse
    /\ UNCHANGED <<users, systemPrompts, designLibraries, proposals, done,
                   overlapped, fn,
                 pending, accounts>>

\* The view is recorded on the loaded document, the document saved and the
\* page's props returned.
ResolveSave(run) ==
  \E r \in inflight :
    /\ r.run = run /\ r.pc = "save"
    /\ proposals' =
         [proposals EXCEPT
            ![r.proposal.id] =
               save(@, r.proposal, trackView(r.proposal, r.ip, r.location))]
    /\ inflight' = inflight \ {r}
    /\ done' = [done EXCEPT ![r.shareableLink] = @ + 1]
    /\ req' = [ep |-> "proposal page", session |-> NoSession,
               body |-> [shareableLink |-> r.shareableLink]]
    /\ resp' = [status |-> 200,
                props |-> [name |-> r.proposal.name,
                           html |-> replaceHost(r.proposal.html, Host)]]
    /\ net' = <<>>
    /\ UNCHANGED <<users, systemPrompts, designLibraries, overlapped, fn,
                 pending, accounts>>

NextViews ==
  \/ \E session \in Callers :
       \E name \in Field(session, ProposalNames, "") :
         \E html \in Field(session, IF name = "" THEN {<<>>} ELSE Htmls, <<>>) :
           \E shareableLink \in Tokens :
             ProposalPost(session, name, html, shareableLink)
  \/ \E shareableLink \in Tokens : ProposalGet(shareableLink)
  \/ ProposalList
  \/ \E run \in Runs, shareableLink \in Tokens, ip \in Ips :
       ResolveFindOne(run, shareableLink, ip)
  \/ \E run \in Runs, outcome \in GeoOutcomes : ResolveGeo(run, outcome)
  \/ \E run \in Runs : ResolveSave(run)

SpecViews == Init /\ [][NextViews]_vars

(***************************************************************************)
(* Claims about the proposal page (checked under SpecViews).               *)
(***************************************************************************)
\* C6: for a token whose resolves ran one after the other, once none is in
\* flight views equals the number of completed resolves and so does the
\* number of viewDetails entries, whatever the geo lookups did: two resolves
\* give 2 and 2.
C6_EachResolveCountsOnce ==
  \A t \in Tokens :
    (findOne(t).present /\ ~overlapped[t] /\ RunsFor(t) = {}) =>
      /\ findOne(t).views = done[t]
      /\ Len(findOne(t).viewDetails) = done[t]

\* C6 witness: two completed resolves of one token, the first with a failed
\* lookup and the second with a successful one.
C6_Witness ==
  \E t \in Tokens :
    /\ findOne(t).present /\ ~overlapped[t] /\ RunsFor(t) = {}
    /\ done[t] = 2 /\ findOne(t).views = 2
    /\ Len(findOne(t).viewDetails) = 2
    /\ findOne(t).viewDetails[1].location = "unknown"
    /\ findOne(t).viewDetails[2].location = "Pune, MH, India"

(***************************************************************************)
(* Further claims about the handlers (checked under Spec).                 *)
(***************************************************************************)
\* The canonical pair the last design-library POST got from its completion.
ParsedPair == callGroqVisionAPI(req.remote)

\* C11: after every step each stored DesignLibrary record has a non-empty
\* cssVariables and a non-empty analysisResult, and a design-library POST
\* whose canonical pair has an empty (falsy) field is answered 400 'Failed
\* to analyze image' and leaves the records as they were.
C11_StoredFieldsNonEmpty ==
  [][/\ \A i \in 1..Len(designLibraries') :
          designLibraries'[i].present =>
            /\ designLibraries'[i].cssVariables # ""
            /\ designLibraries'[i].analysisResult # ""
     /\ (req'.ep = "design-library POST" /\ RemoteAnswered' /\ ParsedPair'.ok
           /\ (\/ ~Truthy(ParsedPair'.value.cssVariables)
               \/ ~Truthy(ParsedPair'.value.analysisResult))) =>
          /\ resp' = Res(400, "Failed to analyze image. Please try again.")
          /\ designLibraries' = designLibraries]_vars

\* C11 witness: a design-library POST whose completion parsed to a pair
\* with an empty field, answered 400 with nothing stored.
C11_Witness ==
  /\ req.ep = "design-library POST" /\ RemoteAnswered /\ ParsedPair.ok
  /\ ~Truthy(ParsedPair.value.cssVariables)
  /\ resp.status = 400 /\ designLibraries = <<>>

\* The template the last request refers to is missing or inactive.
TemplateUnusable ==
  /\ req.body.systemPromptId # 0
  /\ \/ ~findById(systemPrompts, req.body.systemPromptId).present
     \/ ~findById(systemPrompts, req.body.systemPromptId).isActive

\* C12: a text-to-json or design-library POST of a session that refers to a
\* missing or inactive template fails and makes no outbound call; when the
\* request is otherwise complete the failure is 'System prompt not found or
\* inactive'.
C12_UnusableTemplateFails ==
  /\ (req.ep = "text-to-json POST" /\ req.session # NoSession
        /\ TemplateUnusable) =>
       /\ resp.status >= 400 /\ net = <<>>
       /\ TextToJson_checks(req.session, req.body.text, req.body.model)
            = NoResponse => resp.error = PromptNotFound
  /\ (req.ep = "design-library POST" /\ req.session # NoSession
        /\ TemplateUnusable) =>
       /\ resp.status >= 400 /\ net = <<>>
       /\ (req.body.name # "" /\ req.body.description # ""
             /\ req.body.imageLength # 0) =>
            resp.message = "System prompt not found or inactive"

\* C12 witness: a text-to-json POST with a text, an allow-listed model and a
\* usable credential that refers to a stored but inactive template.
C12_Witness ==
  /\ req.ep = "text-to-json POST" /\ req.session # NoSession
  /\ findById(systemPrompts, req.body.systemPromptId).present
  /\ ~findById(systemPrompts, req.body.systemPromptId).isActive
  /\ TextToJson_checks(req.session, req.body.text, req.body.model) = NoResponse
  /\ resp.error = PromptNotFound /\ net = <<>>

\* C13: in a pipeline endpoint a missing or inactive template is answered
\* with a 4xx status, and a non-success remote status or an empty completion
\* with a 5xx status.
C13_FailureStatusClasses ==
  (req.ep \in PipelineEndpoints /\ req.session # NoSession) =>
    /\ (req.ep \in {"text-to-json POST", "design-library POST"}
          /\ TemplateUnusable) => resp.status \in 400..499
    /\ (req.remote.kind = "http" /\ ~ResponseOk(req.remote)) =>
         resp.status \in 500..599
    /\ (RemoteAnswered /\ req.remote.content.kind = "empty") =>
         resp.status \in 500..599

(***************************************************************************)
(* Further claims about the proposal page (checked under SpecViews).       *)
(***************************************************************************)
\* C14: when a resolve whose geo lookup failed (non-success status, fetch
\* throws, unparsable body) saves, the stored proposal gets views of the
\* loaded document plus 1 (the stored views plus 1 when no other resolve of
\* the token overlapped) and exactly one more viewDetails entry, whose
\* location is 'unknown'.
C14_FailedLookupStillCounts ==
  [][\A r \in inflight :
       (r.pc = "save" /\ r.lookup # "ok" /\ r \notin inflight') =>
         LET before == proposals[r.proposal.id]
             after == proposals'[r.proposal.id]
         IN /\ after.views = r.proposal.views + 1
            /\ ~overlapped[r.shareableLink] => after.views = before.views + 1
            /\ after.viewDetails =
                 Append(before.viewDetails,
                        [ip |-> r.ip, location |-> "unknown"])]_vars

\* C14 witness: a proposal whose only resolve had a lookup answered with a
\* non-success status.
C14_Witness ==
  \E t \in Tokens :
    /\ findOne(t).present /\ done[t] = 1 /\ RunsFor(t) = {}
    /\ findOne(t).views = 1
    /\ findOne(t).viewDetails = <<[ip |-> "203.0.113.7", location |-> "unknown"]>>

\* C15: after every step no two stored proposals have the same
\* shareableLink, and every proposal stored before the step is still stored
\* with the shareableLink it had, also when the step is a creation whose
\* token is in use (answered 500).
C15_ShareTokenUniqueAndFixed ==
  [][/\ \A i, j \in 1..Len(proposals') :
          proposals'[i].shareableLink = proposals'[j].shareableLink => i = j
     /\ Len(proposals') >= Len(proposals)
     /\ \A i \in 1..Len(proposals) :
          proposals'[i].shareableLink = proposals[i].shareableLink
     /\ (req'.ep = "proposals POST" /\ req'.session # NoSession
           /\ req'.body.name # "" /\ req'.body.html # <<>>
           /\ IdsOf(req'.shareableLink) # {}) =>
          resp'.status = 500 /\ proposals' = proposals]_vars

\* C15 witness: two proposals are stored, one of them resolved, and a
\* creation has just drawn the token of one of them.
C15_Witness ==
  /\ Len(proposals) = 2
  /\ \E i \in 1..2 : proposals[i].views > 0
  /\ req.ep = "proposals POST" /\ resp.status = 500
  /\ IdsOf(req.shareableLink) # {}

(***************************************************************************)
(* system-prompts handler with its awaits: POST looks the name up          *)
(* (findOne) and creates the document in a later step, so that requests    *)
(* interleave between the two; PUT and DELETE are one database operation.  *)
(***************************************************************************)
TemplateNames == {"", "brand", "sales"}

TemplateIds == 0..MaxTemplates

\* POST up to the await of SystemPrompt.findOne({ name }).
PromptPostFindOne(run, session, name, description, prompt) ==
  LET early ==
        IF session = NoSession THEN Res(401, "Unauthorized")
        ELSE IF name = "" \/ description = "" \/ prompt = <<>>
        THEN Res(400, "Name, description, and prompt are required")
        ELSE IF NameTaken(name, 0)
        THEN Res(400, "A prompt with this name already exists")
        ELSE NoResponse
  IN
  /\ \A r \in pending : r.run # run
  /\ req' = [ep |-> "system-prompts POST", session |-> session,
             body |-> [name |-> name, description |-> description,
                       prompt |-> prompt]]
  /\ resp' = early
  /\ net' = <<>>
  /\ pending' = IF early = NoResponse
                THEN pending \cup {[run |-> run, session |-> session,
                                    name |-> name, description |-> description,
                                    prompt |-> prompt]}
                ELSE pending
  /\ UNCHANGED <<users, systemPrompts, designLibraries, proposals, inflight,
                 done, overlapped, fn, accounts>>

\* POST from SystemPrompt.create on; an error of create is answered 500.
PromptPostCreate(run) ==
  \E r \in pending :
    /\ r.run = run
    /\ ~NameIndexRejects(r.name, 0) => Len(systemPrompts) < MaxTemplates
    /\ req' = [ep |-> "system-prompts POST", session |-> r.session,
               body |-> [name |-> r.name, description |-> r.description,
                         prompt |-> r.prompt]]
    /\ net' = <<>>
    /\ pending' = pending \ {r}
    /\ IF NameIndexRejects(r.name, 0)
       THEN /\ resp' = Res(500, "Internal Server Error")
            /\ UNCHANGED systemPrompts
       ELSE /\ systemPrompts' =
                 Append(systemPrompts,
                        [present |-> TRUE, name |-> r.name,
                         description |-> r.description, prompt |-> r.prompt,
                         isActive |-> TRUE, category |-> "general",
                         createdBy |-> r.session])
            /\ resp' = ResBody(201, [id |-> Len(systemPrompts) + 1])
    /\ UNCHANGED <<users, designLibraries, proposals, inflight, done,
                   overlapped, fn, accounts>>

NextPrompts ==
  \/ \E run \in Runs, session \in Callers :
       \E name \in Field(session, TemplateNames, ""),
          prompt \in Field(session, PromptBodies, <<>>) :
         PromptPostFindOne(run, session, name, "d", prompt)
  \/ \E run \in Runs : PromptPostCreate(run)
  \/ \E session \in Callers :
       \E id \in Field(session, TemplateIds, 0),
          name \in Field(session, TemplateNames, ""),
          isActive \in Field(session, {"absent", "true", "false"}, "absent") :
         SystemPromptPut(session, id, name, isActive)
  \/ \E session \in Callers :
       \E id \in Field(session, TemplateIds, 0) :
         SystemPromptDelete(session, id)

SpecPrompts == Init /\ [][NextPrompts]_vars

\* C16: no two stored PromptTemplates have the same name, whatever the
\* interleaving of POST (findOne, then create), PUT and DELETE requests.
C16_TemplateNamesUnique ==
  \A i, j \in 1..Len(systemPrompts) :
    (systemPrompts[i].present /\ systemPrompts[j].present
       /\ systemPrompts[i].name = systemPrompts[j].name) => i = j

\* C16 witness: two templates are stored and a POST that found its name free
\* was refused at create, another request having taken the name meanwhile.
C16_Witness ==
  /\ Len(systemPrompts) = 2
  /\ systemPrompts[1].present /\ systemPrompts[2].present
  /\ req.ep = "system-prompts POST" /\ resp.status = 500
  /\ NameTaken(req.body.name, 0)

(***************************************************************************)
(* Claims about the stored credential (checked under Spec).                *)
(***************************************************************************)
\* C17: every stored groqApiKey is the encrypted form of the credential,
\* whether it was written by settings PUT or by a save of the document.
C17_StoredKeyEncrypted ==
  \A u \in Users : users[u] # NoKey => users[u].kind = "cipher"

\* The read paths that are answered from the database.
ReadEndpoints == {"settings GET", "system-prompts GET", "design-library GET"}

\* The groqApiKey values an Account can have stored.
StoredCredentials ==
  {encrypt(k, iv) : k \in ApiKeys, iv \in IVs} \cup {Plain(k) : k \in ApiKeys}

\* The answer to the last request, had the Accounts the stored fields
\* accountKeys.
ReadResponse(accountKeys) ==
  CASE req.ep = "settings GET" -> SettingsGet_response(req.session, accountKeys)
    [] req.ep = "system-prompts GET" ->
         SystemPromptGet_response(req.session, req.body.category,
                                  req.body.active)
    [] req.ep = "design-library GET" -> DesignLibraryGet_response(req.session)

\* C18: the answer to a GET is the same whatever credential value an Account
\* that has one has stored, and the body of settings GET is the boolean
\* hasApiKey alone.
C18_ReadsIndependentOfCredential ==
  req.ep \in ReadEndpoints =>
    /\ resp = ReadResponse(users)
    /\ \A u \in Users, stored \in StoredCredentials :
         users[u] # NoKey =>
           ReadResponse([users EXCEPT ![u] = stored]) = resp
    /\ (req.ep = "settings GET" /\ req.session # NoSession) =>
         resp.body \in [hasApiKey : BOOLEAN]

\* C18 witness: settings GET of an Account with a stored credential,
\* answered hasApiKey true.
C18_Witness ==
  /\ req.ep = "settings GET" /\ req.session # NoSession
  /\ users[req.session] \in StoredCredentials
  /\ resp.status = 200 /\ resp.body = [hasApiKey |-> TRUE]

\* C19: a settings PUT of a session with a non-empty credential makes the
\* test request first; it stores the credential and answers 200 only when
\* the test succeeded, and otherwise answers 400 and leaves the stored
\* credentials as they were.
C19_StoredOnlyAfterTest ==
  [][(req'.ep = "settings PUT" /\ req'.session # NoSession
        /\ req'.body.groqApiKey # <<>>) =>
       /\ Len(net') = 1 /\ net'[1].bearer = req'.body.groqApiKey
       /\ IF req'.remote.kind = "http" /\ ResponseOk(req'.remote)
          THEN /\ resp'.status = 200
               /\ users'[req'.session].text = req'.body.groqApiKey
               /\ \A u \in Users \ {req'.session} : users'[u] = users[u]
          ELSE /\ resp' = Res(400, "Invalid API key")
               /\ users' = users]_vars

\* C19 witness: an Account with a stored credential submits another one,
\* the test fails with a non-success status, and the stored one is kept.
C19_Witness ==
  /\ req.ep = "settings PUT" /\ req.session # NoSession
  /\ req.body.groqApiKey # <<>>
  /\ req.remote.kind = "http" /\ ~ResponseOk(req.remote)
  /\ resp.status = 400
  /\ users[req.session] # NoKey
  /\ users[req.session].text # req.body.groqApiKey

(***************************************************************************)
(* signup handler with its awaits: User.findOne({ email }), then           *)
(* User.create in a later step.                                            *)
(***************************************************************************)
Emails == {"", "a@x.io", " A@x.io", "b@x.io"}

Passwords == {"", "short", "secret1"}

\* The setters of the email path (lowercase, trim), which mongoose applies
\* to documents and to query conditions.
castEmail(email) == IF email = " A@x.io" THEN "a@x.io" ELSE email

\* User.findOne({ email }) finds a document.
EmailTaken(email) ==
  \E i \in 1..Len(accounts) : accounts[i].email = castEmail(email)

\* The unique index on email rejects the insert of a second document with
\* the email.
EmailIndexRejects(email) == EmailTaken(email)

\* POST up to the await of User.findOne.
SignupFindOne(run, email, password, name) ==
  LET early ==
        IF email = "" \/ password = "" \/ name = ""
        THEN Res(400, "Missing required fields")
        ELSE IF EmailTaken(email) THEN Res(400, "User already exists")
        ELSE NoResponse
  IN
  /\ \A r \in pending : r.run # run
  /\ req' = [ep |-> "signup POST", session |-> NoSession,
             body |-> [email |-> email, password |-> password, name |-> name]]
  /\ resp' = early
  /\ net' = <<>>
  /\ pending' = IF early = NoResponse
                THEN pending \cup {[run |-> run, email |-> email,
                                    password |-> password, name |-> name]}
                ELSE pending
  /\ UNCHANGED <<users, systemPrompts, designLibraries, proposals, inflight,
                 done, overlapped, fn, accounts>>

\* POST from User.create on: the validators (password minlength 6) and the
\* insert; an error thrown is answered 500 with its message.
SignupCreate(run) ==
  \E r \in pending :
    LET doc == [id |-> Len(accounts) + 1, email |-> castEmail(r.email),
                name |-> r.name]
        error == IF Len(r.password) < 6 THEN <<"ValidationError">>
                 ELSE IF EmailIndexRejects(r.email)
                 THEN <<"E11000", "duplicate", "key", "error">>
                 ELSE <<>>
    IN
    /\ r.run = run
    /\ error = <<>> => Len(accounts) < MaxAccounts
    /\ req' = [ep |-> "signup POST", session |-> NoSession,
               body |-> [email |-> r.email, password |-> r.password,
                         name |-> r.name]]
    /\ net' = <<>>
    /\ pending' = pending \ {r}
    /\ resp' = IF error = <<>> THEN ResBody(201, doc)
               ELSE ResError(500, "Something went wrong", error)
    /\ accounts' = IF error = <<>> THEN Append(accounts, doc) ELSE accounts
    /\ UNCHANGED <<users, systemPrompts, designLibraries, proposals, inflight,
                   done, overlapped, fn>>

NextSignup ==
  \/ \E run \in Runs, email \in Emails, password \in Passwords :
       \E name \in (IF email = "" THEN {""} ELSE {"", "Ann"}) :
         SignupFindOne(run, email, password, name)
  \/ \E run \in Runs : SignupCreate(run)

SpecSignup == Init /\ [][NextSignup]_vars

\* C20: no two Accounts have the same email, and a signup with a password of
\* valid length that was refused while an Account with its email exists was
\* answered 400.
C20_TakenEmailAnswered400 ==
  /\ \A i, j \in 1..Len(accounts) :
       accounts[i].email = accounts[j].email => i = j
  /\ (req.ep = "signup POST" /\ resp # NoResponse /\ resp.status # 201
        /\ Len(req.body.password) >= 6
        /\ EmailTaken(req.body.email)) => resp.status = 400

(***************************************************************************)
(* Claims about the proposals endpoint and the proposal page.              *)
(***************************************************************************)
\* C21: every successful GET of a single proposal by its share token at the
\* proposals endpoint adds one view and one viewDetails entry to it, and
\* proposal creation and the listing leave every stored proposal as it was.
C21_ViewsOnlyOnTokenGet ==
  [][/\ (req'.ep = "proposals GET" /\ resp'.status = 200) =>
          \E i \in IdsOf(req'.body.shareableLink) :
            /\ proposals'[i].views = proposals[i].views + 1
            /\ Len(proposals'[i].viewDetails) =
                 Len(proposals[i].viewDetails) + 1
     /\ req'.ep \in {"proposals POST", "proposals list"} =>
          \A i \in 1..Len(proposals) : proposals'[i] = proposals[i]]_vars

(***************************************************************************)
(* Claims about the design-library handler and the pipelines.              *)
(***************************************************************************)
\* C22: a design-library POST whose base64 image text is longer than
\* 4 * 1024 * 1024 characters is answered 400 and makes no outbound call.
C22_OverFourMiBRejected ==
  (req.ep = "design-library POST" /\ resp # NoResponse
     /\ req.body.imageLength > 4 * 1024 * 1024) =>
    resp.status = 400 /\ net = <<>>

\* C23: the prompt resolved from Prefix + '{text}' + Suffix begins with
\* Prefix and ends with Suffix, so the occurrences of '{text}' after the
\* first stay as written; and a text without a $ is inserted as it is, even
\* when it contains '{text}' itself.
C23_FirstOccurrenceOnly ==
  (fn.op = "ResolvePrompt" /\ fn.applied) =>
    /\ StartsWith(fn.out, fn.in.prefix)
    /\ Len(fn.out) >= Len(fn.in.prefix) + Len(fn.in.suffix)
    /\ SubSeq(fn.out, Len(fn.out) - Len(fn.in.suffix) + 1, Len(fn.out))
         = fn.in.suffix
    /\ (\A i \in 1..Len(fn.in.text) : fn.in.text[i] # "$") =>
         fn.out = fn.in.prefix \o fn.in.text \o fn.in.suffix

\* C23 witness: a template with three occurrences of '{text}' resolved with
\* a text that contains '{text}'; the result holds four.
C23_Witness ==
  /\ fn.op = "ResolvePrompt" /\ fn.applied
  /\ fn.in.suffix = <<"s">> \o Placeholder \o <<"z">> \o Placeholder
  /\ fn.in.text = Placeholder \o <<"a">>
  /\ fn.out = fn.in.prefix \o Placeholder \o <<"a", "s">> \o Placeholder
                \o <<"z">> \o Placeholder

\* The parts of C24 that do not concern the type tag: the i-th returned
\* slide keeps the entry's id when it is non-empty and otherwise has a token
\* no other entry without an id received, and it has the entry's fields
\* other than id and type, unchanged, and no further field.
IdAndFieldsKept(entries, slides, i) ==
  /\ IF Truthy(Get(entries[i], "id"))
     THEN Get(slides[i], "id") = Get(entries[i], "id")
     ELSE /\ Truthy(Get(slides[i], "id"))
          /\ \A j \in 1..Len(entries) :
               (j # i /\ ~Truthy(Get(entries[j], "id"))) =>
                 Get(slides[j], "id") # Get(slides[i], "id")
  /\ DOMAIN slides[i].f = DOMAIN entries[i].f \cup {"id", "type"}
  /\ \A key \in DOMAIN entries[i].f \ {"id", "type"} :
       slides[i].f[key] = entries[i].f[key]

\* C24 as stated: besides the above, the entry's type is kept whenever the
\* entry has one, and is content otherwise.
C24_TypeKeptWhenPresent ==
  (fn.op = "parseDeck" /\ fn.applied /\ ValidDeckShape(fn.in)) =>
    LET entries == Get(fn.in.v, "slides").e
        slides == fn.out.value.slides
    IN \A i \in 1..Len(entries) :
         /\ IdAndFieldsKept(entries, slides, i)
         /\ Get(slides[i], "type") =
              IF "type" \in DOMAIN entries[i].f
              THEN Get(entries[i], "type") ELSE Str("content")

\* C24 amended: the entry's type is kept when it is present and non-empty,
\* and is content otherwise (an empty type tag included).
C24_TypeKeptWhenNonEmpty ==
  (fn.op = "parseDeck" /\ fn.applied /\ ValidDeckShape(fn.in)) =>
    LET entries == Get(fn.in.v, "slides").e
        slides == fn.out.value.slides
    IN \A i \in 1..Len(entries) :
         /\ IdAndFieldsKept(entries, slides, i)
         /\ Get(slides[i], "type") =
              IF Truthy(Get(entries[i], "type"))
              THEN Get(entries[i], "type") ELSE Str("content")

\* C24 witness: a deck of two entries without an id, the first with bullets
\* and an empty type tag; the two get different tokens, the first gets the
\* type content and keeps its bullets.
C24_Witness ==
  /\ fn.op = "parseDeck" /\ fn.applied /\ ValidDeckShape(fn.in)
  /\ Len(Get(fn.in.v, "slides").e) = 2
  /\ \A i \in 1..2 : ~Truthy(Get(Get(fn.in.v, "slides").e[i], "id"))
  /\ Get(Get(fn.in.v, "slides").e[1], "type") = Str("")
  /\ Get(Get(fn.in.v, "slides").e[1], "bullets") = Arr(<<Str("b1")>>)
  /\ fn.out.ok
  /\ Get(fn.out.value.slides[1], "id") # Get(fn.out.value.slides[2], "id")
  /\ Get(fn.out.value.slides[1], "type") = Str("content")
  /\ Get(fn.out.value.slides[1], "bullets") = Arr(<<Str("b1")>>)

\* C25: a completion that parses as JSON but has no slides field, a slides
\* field that is not an array, or no presentationTitle makes the normalizer
\* fail; no deck is returned.
C25_MissingTitleOrSlidesFails ==
  (fn.op = "parseDeck" /\ fn.applied /\ fn.in.kind = "json"
     /\ \/ Get(fn.in.v, "slides") = Undefined
        \/ Get(fn.in.v, "slides").t # "array"
        \/ Get(fn.in.v, "presentationTitle") = Undefined) =>
    ~fn.out.ok

\* C26: in every step a stored DesignLibrary keeps its cssVariables,
\* analysisResult, systemPromptId and createdBy for as long as it exists; a
\* design-library PUT changes nothing but the name and the description of
\* the record it names, each only when a non-empty value is given, and for
\* an id of no record it answers 404 and changes nothing.
C26_TokensWriteOnce ==
  [][/\ \A id \in 1..Len(designLibraries) :
          (designLibraries[id].present /\ designLibraries'[id].present) =>
            /\ designLibraries'[id].cssVariables = designLibraries[id].cssVariables
            /\ designLibraries'[id].analysisResult = designLibraries[id].analysisResult
            /\ designLibraries'[id].systemPromptId = designLibraries[id].systemPromptId
            /\ designLibraries'[id].createdBy = designLibraries[id].createdBy
     /\ (req'.ep = "design-library PUT" /\ req'.session # NoSession
           /\ req'.body.id # 0) =>
          IF findById(designLibraries, req'.body.id).present
          THEN /\ resp'.status = 200
               /\ designLibraries' =
                    [designLibraries EXCEPT
                       ![req'.body.id].name =
                          IF req'.body.name # "" THEN req'.body.name ELSE @,
                       ![req'.body.id].description =
                          IF req'.body.description # ""
                          THEN req'.body.description ELSE @]
          ELSE /\ resp'.status = 404
               /\ designLibraries' = designLibraries]_vars

\* C26 witness: a PUT has renamed a stored record, whose cssVariables is
\* still the text the model call of its creation produced.
C26_Witness ==
  /\ req.ep = "design-library PUT" /\ resp.status = 200
  /\ req.body.name = "Kit"
  /\ designLibraries[req.body.id].name = "Kit"
  /\ designLibraries[req.body.id].cssVariables = ":root{--c:#fff;}"

\* C27: whenever no resolve of a token is in flight, the proposal's views
\* equals the number of its viewDetails entries and the number of resolves
\* completed, however the resolves interleaved.
C27_NoLostView ==
  \A t \in Tokens :
    (findOne(t).present /\ RunsFor(t) = {}) =>
      /\ findOne(t).views = Len(findOne(t).viewDetails)
      /\ findOne(t).views = done[t]

\* C28: a response to a request without a session contains a stored
\* proposal only if the request carried that proposal's share token; the
\* listing, which carries none, returns no proposal.
C28_ContentOnlyByToken ==
  /\ (req.ep = "proposals list" /\ req.session = NoSession) =>
       resp.body = <<>>
  /\ (req.ep = "proposals GET" /\ req.session = NoSession
        /\ resp.status = 200) =>
       resp.body.shareableLink = req.body.shareableLink
  /\ (req.ep = "proposal page" /\ req.session = NoSession
        /\ resp.status = 200) =>
       \E i \in IdsOf(req.body.shareableLink) :
         resp.props.name = proposals[i].name

\* C29: a stored DesignLibrary is changed or deleted only in a step of a
\* request made in the session of the Account that created it, and a
\* design-library GET returns only records created by the requester.
C29_OnlyOwnerChanges ==
  [][/\ \A id \in 1..Len(designLibraries) :
          (designLibraries[id].present
             /\ designLibraries'[id] # designLibraries[id]) =>
            req'.session = designLibraries[id].createdBy
     /\ (req'.ep = "design-library GET" /\ resp'.status = 200) =>
          \A j \in 1..Len(resp'.body) :
            resp'.body[j].createdBy = req'.session]_vars

\* C30: once a settings PUT has saved the credential k for an Account,
\* getDecryptedApiKey() on the Account's stored value yields exactly k.
C30_SavedKeyRoundTrips ==
  (req.ep = "settings PUT" /\ resp.status = 200
     /\ req.body.groqApiKey # <<>>) =>
    getDecryptedApiKey(users[req.session])
      = [isNull |-> FALSE, key |-> req.body.groqApiKey]

=============================================================================
